---- MODULE Spec2Model ----
(***************************************************************************)
(* A model of the orchestration layer of redverse-crawler: the retry       *)
(* helper (RetryUtil.withRetry), the crawler's progressive-narrowing       *)
(* search (CrawlerService.recursiveSearch), the per-note update with its   *)
(* change detection (DataUpdateService.updateNoteWithEmailNotification),   *)
(* the batch run (DataUpdateService.startBatchUpdate) and the login        *)
(* session (AuthService).  Each part has its own specification over the    *)
(* same variables; the parts a specification does not exercise stay in     *)
(* their initial state.                                                    *)
(***************************************************************************)
EXTENDS Integers, Sequences, FiniteSets, TLC

\* ------------------------------------------------------------------------
\* Bounds of the model
\* ------------------------------------------------------------------------
MaxRetriesBound == 4
MaxApps == 2
MaxNotesPerApp == 4
MaxRuns == 2
MaxRedisFailures == 1
MaxRequests == 4
MaxOverlap == 2
TimeoutTicks == 2

\* ------------------------------------------------------------------------
\* State
\* ------------------------------------------------------------------------
\* RetryUtil.withRetry: one call of it.
VARIABLES
  retryOptions,   \* the RetryOptions argument, defaults applied
  retryPc,        \* "call" | "delay" | "returned" | "thrown" ("off": not run)
  attempt,        \* the loop variable of withRetry
  fnCalls,        \* the errors of the calls of fn made so far (<<>> = success)
  delays,         \* the delays waited so far, in order
  lastError,      \* the variable lastError
  thrown          \* the error withRetry re-raised, <<>> when none

retryVars == <<retryOptions, retryPc, attempt, fnCalls, delays, lastError, thrown>>

\* CrawlerService.recursiveSearch: one lookup on the shared page.
VARIABLES
  originalAppName, \* the argument of recursiveSearch
  searchPc,        \* "loop" | "typing" | "waiting" | "throttle" | "done"; the
                   \* responseHandler is attached while "typing" or "waiting"
  length,          \* the loop variable of recursiveSearch
  searchAttempts,  \* the array searchAttempts
  attemptYield,    \* per attempt, whether searchAndCaptureNoteData returned data
  capturedData,    \* capturedData of the running attempt: <<>> (null) or <<data>>
  capturedNotes,   \* the notes of the response capturedData was built from
  inFlight,        \* keywords of searches whose response has not arrived yet
  accepted,        \* <<>> or <<candidate, keyword>>: the response the handler took last
  searchResult     \* what recursiveSearch returned

searchVars ==
  <<originalAppName, searchPc, length, searchAttempts, attemptYield,
    capturedData, capturedNotes, inFlight, accepted, searchResult>>

\* DataUpdateService.updateNoteWithEmailNotification: one note.
VARIABLES
  note,              \* the Note argument (the row as fetched before the run)
  newData,           \* the crawled metrics
  itemPc,            \* "update" | "updateDelay" | "getApp" | "getEmail" | "send" | "done"
  updateAttempt,     \* the loop variable of updateNoteInSupabase
  storedRow,         \* the metrics of the note's row in the data store
  updatesDone,       \* how many times the row was written
  hasChanges,        \* <<>> until computed, then <<the value of hasChanges>>
  changes,           \* <<>> until computed, then <<the object changes>>
  notifications,     \* the payloads handed to emailService.sendNoteNotification
  itemResult         \* "pending" | "resolved" | "rejected"

itemVars ==
  <<note, newData, itemPc, updateAttempt, storedRow, updatesDone, hasChanges,
    changes, notifications, itemResult>>

\* AuthService.systemStatus and the progress record in Redis.
VARIABLES
  systemStatus,      \* AuthService.systemStatus (the in-memory status)
  redisStore,        \* <<>> (no record) or <<the record under crawler:progress>>
  redisFailures      \* how many Redis commands have failed so far

statusVars == <<systemStatus, redisStore, redisFailures>>

\* DataUpdateService.startBatchUpdate: its invocations.
VARIABLES
  isUpdating,        \* DataUpdateService.isUpdating
  dataStore,         \* per application that has notes, in order, the number of its notes
  run                \* per invocation of startBatchUpdate, its position and locals

batchVars == <<isUpdating, dataStore, run>>

\* AuthService: the login session, the pooled page and the requests.
VARIABLES
  currentSession,    \* AuthService.currentSession (page, isWaitingForSmsCode)
  authenticatedPage, \* AuthService.authenticatedPage (NoPage when null)
  openPages,         \* the open browser pages that something still refers to
  request,           \* per request (login, SMS code, page for the crawler) its position
  poll,              \* per SMS-code request, the login monitoring it started
  callbacks,         \* calls of onLoginSuccess scheduled by setTimeout and not made yet
  returned,          \* what the request that returned last gave its caller
  leaked             \* a page was left open that nothing refers to any more

authVars ==
  <<currentSession, authenticatedPage, openPages, request, poll, callbacks, returned,
    leaked>>

vars == <<retryVars, searchVars, itemVars, statusVars, batchVars, authVars>>
nonRetryVars == <<searchVars, itemVars, statusVars, batchVars, authVars>>
nonSearchVars == <<retryVars, itemVars, statusVars, batchVars, authVars>>
nonItemVars == <<retryVars, searchVars, statusVars, batchVars, authVars>>
nonBatchVars == <<retryVars, searchVars, itemVars, authVars>>
nonAuthVars == <<retryVars, searchVars, itemVars, batchVars>>

\* ------------------------------------------------------------------------
\* Generic helpers
\* ------------------------------------------------------------------------
Min(a, b) == IF a <= b THEN a ELSE b

RECURSIVE Pow2(_)
Pow2(n) == IF n <= 0 THEN 1 ELSE 2 * Pow2(n - 1)

\* JavaScript String.prototype.includes on sequences of tokens.
Includes(s, t) ==
  \E i \in 1..(Len(s) - Len(t) + 1) : SubSeq(s, i, i + Len(t) - 1) = t

\* ------------------------------------------------------------------------
\* RetryUtil (src/common/utils/retry.util.ts)
\* ------------------------------------------------------------------------
\* An error is its message, a sequence of words; <<>> stands for "no error".
NoError == <<>>

TransientSignatures ==
  { "fetch failed", "ECONNRESET", "ETIMEDOUT", "AbortError", "ENOTFOUND",
    "ECONNREFUSED", "socket hang up", "network timeout", "Request timeout" }

\* The errors fn may throw in the model: two transient ones, two others.
ErrorMessages ==
  { <<"read", "ECONNRESET">>, <<"Request timeout">>,
    <<"Search input field not found">>, <<"permission denied">> }

defaultRetryCondition(error) ==
  \E sig \in TransientSignatures : Includes(error, <<sig>>)

\* retryCondition of the options: the default one or a caller's that
\* retries nothing.
retryCondition(opts, error) ==
  IF opts.customCondition THEN FALSE ELSE defaultRetryCondition(error)

RetryOptionSets ==
  [ maxRetries : 0..MaxRetriesBound,
    baseDelay : {1000, 3},
    maxDelay : {4000, 30000, 2},
    exponentialBackoff : BOOLEAN,
    customCondition : BOOLEAN ]

\* The delay line 45-48 computes after failed attempt a.
RetryDelayNoCap(opts, a) ==
  IF opts.exponentialBackoff THEN opts.baseDelay * Pow2(a - 1) ELSE opts.baseDelay

RetryDelay(opts, a) ==
  IF opts.exponentialBackoff
    THEN Min(opts.baseDelay * Pow2(a - 1), opts.maxDelay)
    ELSE opts.baseDelay

\* isLastAttempt of line 37.
IsLastAttemptOffByOne(opts, a) == a = opts.maxRetries

IsLastAttempt(opts, a) == a = opts.maxRetries + 1

\* The test of line 40: re-raise instead of retrying.
StopRetryingIgnoreCondition(opts, a, error) == IsLastAttempt(opts, a)

StopRetrying(opts, a, error) ==
  ~retryCondition(opts, error) \/ IsLastAttempt(opts, a)

RetryInit ==
  /\ retryOptions \in RetryOptionSets
  /\ retryPc = "call"
  /\ attempt = 1
  /\ fnCalls = <<>>
  /\ delays = <<>>
  /\ lastError = NoError
  /\ thrown = NoError

RetryOff ==
  /\ retryOptions = [maxRetries |-> 0, baseDelay |-> 3, maxDelay |-> 2,
                     exponentialBackoff |-> TRUE, customCondition |-> FALSE]
  /\ retryPc = "off"
  /\ attempt = 1
  /\ fnCalls = <<>>
  /\ delays = <<>>
  /\ lastError = NoError
  /\ thrown = NoError

\* fn() resolves: `return await fn()` (line 33).
RetryFnReturns ==
  /\ retryPc = "call"
  /\ attempt <= retryOptions.maxRetries + 1
  /\ fnCalls' = Append(fnCalls, NoError)
  /\ retryPc' = "returned"
  /\ UNCHANGED <<retryOptions, attempt, delays, lastError, thrown>>
  /\ UNCHANGED nonRetryVars

\* fn() rejects with `error`: the catch block (lines 34-58) up to the
\* throw or to the start of the delay.
RetryFnThrows(error) ==
  /\ retryPc = "call"
  /\ attempt <= retryOptions.maxRetries + 1
  /\ fnCalls' = Append(fnCalls, error)
  /\ lastError' = error
  /\ IF StopRetrying(retryOptions, attempt, error)
       THEN /\ retryPc' = "thrown"
            /\ thrown' = error
            /\ UNCHANGED delays
       ELSE /\ retryPc' = "delay"
            /\ delays' = Append(delays, RetryDelay(retryOptions, attempt))
            /\ UNCHANGED thrown
  /\ UNCHANGED <<retryOptions, attempt>>
  /\ UNCHANGED nonRetryVars

\* `await RetryUtil.delay(delay)` (line 57) ends; the loop increments attempt.
RetryDelayEnds ==
  /\ retryPc = "delay"
  /\ retryPc' = "call"
  /\ attempt' = attempt + 1
  /\ UNCHANGED <<retryOptions, fnCalls, delays, lastError, thrown>>
  /\ UNCHANGED nonRetryVars

\* ------------------------------------------------------------------------
\* CrawlerService: recursiveSearch and searchAndCaptureNoteData
\* (src/crawler/crawler.service.ts)
\* ------------------------------------------------------------------------
MaxNameLen == 3
MaxRecords == 3

\* A string is a sequence of characters.  "a" is an ASCII letter, "U4E2D" the
\* CJK ideograph of that code point (in the range 4E00-9FFF), "U3042" the
\* hiragana letter of that code point, " " white space.
Chars == {"a", "U4E2D", "U3042", " "}

\* The UTF-16 code unit of a character.
CodeUnit(c) ==
  CASE c = "a" -> 97
    [] c = " " -> 32
    [] c = "U3042" -> 12354
    [] c = "U4E2D" -> 20013

RECURSIVE SeqsUpTo(_, _)
SeqsUpTo(S, n) ==
  IF n = 0 THEN {<<>>}
  ELSE LET shorter == SeqsUpTo(S, n - 1)
       IN  shorter \cup {Append(s, c) : s \in {t \in shorter : Len(t) = n - 1}, c \in S}

AppNames == SeqsUpTo(Chars, MaxNameLen) \ {<<>>}

\* String.prototype.trim.
RECURSIVE TrimStart(_)
TrimStart(s) ==
  IF s # <<>> /\ Head(s) = " " THEN TrimStart(Tail(s)) ELSE s

RECURSIVE TrimEnd(_)
TrimEnd(s) ==
  IF s # <<>> /\ s[Len(s)] = " " THEN TrimEnd(SubSeq(s, 1, Len(s) - 1)) ELSE s

Trim(s) == TrimEnd(TrimStart(s))

\* String.prototype.substring(0, length).
Substring0(s, len) == SubSeq(s, 1, Min(len, Len(s)))

AnyNonAscii(text) == \E i \in 1..Len(text) : CodeUnit(text[i]) > 127

\* /[\u4e00-\u9fff]/.test(text) (line 427).
containsChinese(text) == \E i \in 1..Len(text) : CodeUnit(text[i]) \in 19968..40959

minSearchLength(appName) == IF containsChinese(appName) THEN 1 ELSE 2

\* encodeURIComponent, character by character.
EncodeChar(c) ==
  CASE c = "a" -> <<"a">>
    [] c = " " -> <<"%20">>
    [] c = "U4E2D" -> <<"%E4", "%B8", "%AD">>
    [] c = "U3042" -> <<"%E3", "%81", "%82">>

RECURSIVE encodeURIComponent(_)
encodeURIComponent(s) ==
  IF s = <<>> THEN <<>> ELSE EncodeChar(Head(s)) \o encodeURIComponent(Tail(s))

API_URL_PATTERN ==
  <<"https://edith.xiaohongshu.com/web_api/sns/v5/creator/note/managemaent/search">>

\* The URL of the request the search surface sends for `keyword`.
SearchUrl(keyword) ==
  API_URL_PATTERN \o <<"?", "keyword=">> \o encodeURIComponent(keyword)
    \o <<"&", "page=1">>

\* The test of responseHandler, lines 446-449.
HandlerMatches(url, appName) ==
  /\ Includes(url, API_URL_PATTERN)
  /\ Includes(url, <<"keyword=">> \o encodeURIComponent(appName))

\* An optional number is {} (undefined) or {n}; `x || 0`.
OrZero(x) == IF x = {} THEN 0 ELSE CHOOSE n \in x : TRUE

MetricFields ==
  {"collected_count", "view_count", "likes", "comments_count", "shared_count"}

\* Upstream records (CreatorNoteData): record i of a response, some of its
\* metrics missing.
LikesOf(i) == CASE i = 1 -> 10 [] i = 2 -> 20 [] i = 3 -> 5 [] OTHER -> i

UpstreamNote(i) ==
  [id |-> i, display_title |-> i, likes |-> {LikesOf(i)},
   collected_count |-> IF i % 2 = 0 THEN {} ELSE {i},
   comments_count |-> IF i % 3 = 0 THEN {} ELSE {2 * i},
   view_count |-> {100 * i},
   shared_count |-> IF i = 1 THEN {0} ELSE {}]

\* The lists of records a response may carry: records in upstream order.
RECURSIVE NoteLists(_)
NoteLists(n) ==
  IF n = 0 THEN {<<>>}
  ELSE NoteLists(n - 1) \cup {Append(l, UpstreamNote(n)) : l \in NoteLists(n - 1)}

\* The bodies a response may carry: success with a list of notes (possibly
\* empty), or success = false.
ResponseBodies ==
  [success : {TRUE}, notes : NoteLists(MaxRecords)]
    \cup {[success |-> FALSE, notes |-> <<>>]}

\* The loop of lines 489-495 over notes[i..].
RECURSIVE AccumulateFrom(_, _, _)
AccumulateFrom(acc, notes, i) ==
  IF i > Len(notes) THEN acc
  ELSE AccumulateFrom(
         [acc EXCEPT !.collected_count = @ + OrZero(notes[i].collected_count),
                     !.view_count = @ + OrZero(notes[i].view_count),
                     !.likes = @ + OrZero(notes[i].likes),
                     !.comments_count = @ + OrZero(notes[i].comments_count),
                     !.shared_count = @ + OrZero(notes[i].shared_count)],
         notes, i + 1)

\* capturedData as lines 478-495 build it from a non-empty list of notes.
CaptureFirstOnly(notes) ==
  [collected_count |-> OrZero(notes[1].collected_count),
   view_count |-> OrZero(notes[1].view_count),
   likes |-> OrZero(notes[1].likes),
   comments_count |-> OrZero(notes[1].comments_count),
   shared_count |-> OrZero(notes[1].shared_count),
   display_title |-> notes[1].display_title,
   id |-> [i \in 1..Len(notes) |-> notes[i].id]]

Capture(notes) ==
  AccumulateFrom(
    [collected_count |-> 0, view_count |-> 0, likes |-> 0, comments_count |-> 0,
     shared_count |-> 0, display_title |-> notes[1].display_title,
     id |-> [i \in 1..Len(notes) |-> notes[i].id]],
    notes, 1)

\* The data of a successful result, lines 387-394 (n || 0 on a number is n).
ResultData(noteData) ==
  [likes_count |-> noteData.likes,
   collects_count |-> noteData.collected_count,
   comments_count |-> noteData.comments_count,
   views_count |-> noteData.view_count,
   shares_count |-> noteData.shared_count,
   title |-> noteData.display_title]

NoData ==
  [likes_count |-> 0, collects_count |-> 0, comments_count |-> 0,
   views_count |-> 0, shares_count |-> 0, title |-> 0]

\* `const appName = originalAppName.trim()` (line 362).
appName == Trim(originalAppName)

\* `const searchTerm = appName.substring(0, length)` (line 374).
searchTerm == Substring0(appName, length)

SearchInit ==
  /\ originalAppName \in AppNames
  /\ searchPc = "loop"
  /\ length = Len(Trim(originalAppName))
  /\ searchAttempts = <<>>
  /\ attemptYield = <<>>
  /\ capturedData = <<>>
  /\ capturedNotes = <<>>
  /\ inFlight = {}
  /\ accepted = <<>>
  /\ searchResult = [status |-> "pending", data |-> NoData,
                     usedSearchTerm |-> <<>>, attempts |-> <<>>]

SearchOff ==
  /\ originalAppName = <<"a">>
  /\ searchPc = "off"
  /\ length = 0
  /\ searchAttempts = <<>>
  /\ attemptYield = <<>>
  /\ capturedData = <<>>
  /\ capturedNotes = <<>>
  /\ inFlight = {}
  /\ accepted = <<>>
  /\ searchResult = [status |-> "pending", data |-> NoData,
                     usedSearchTerm |-> <<>>, attempts |-> <<>>]

\* The loop test of line 373.
LoopContinuesStrict(len, name) == len > minSearchLength(name)

LoopContinues(len, name) == len >= minSearchLength(name)

\* One more turn of the loop: the term is recorded (line 375) and
\* searchAndCaptureNoteData attaches its handler (lines 437-513).
SearchAttach ==
  /\ searchPc = "loop"
  /\ LoopContinues(length, appName)
  /\ searchAttempts' = Append(searchAttempts, searchTerm)
  /\ accepted' = <<>>
  /\ capturedData' = <<>>
  /\ capturedNotes' = <<>>
  /\ searchPc' = "typing"
  /\ UNCHANGED <<originalAppName, length, attemptYield, inFlight, searchResult>>
  /\ UNCHANGED nonSearchVars

LastOnly(attempts) ==
  IF attempts = <<>> THEN <<>> ELSE <<attempts[Len(attempts)]>>

\* searchAttempts.join(', ') in the error of line 421: every term, in the
\* order of the pushes.
Joined(attempts) == attempts

\* The loop ends without a match (lines 415-422).
SearchExhausted ==
  /\ searchPc = "loop"
  /\ ~LoopContinues(length, appName)
  /\ searchResult' = [status |-> "failure", data |-> NoData,
                      usedSearchTerm |-> <<>>, attempts |-> Joined(searchAttempts)]
  /\ searchPc' = "done"
  /\ UNCHANGED <<originalAppName, length, searchAttempts, attemptYield,
                 capturedData, capturedNotes, inFlight, accepted>>
  /\ UNCHANGED nonSearchVars

\* inputSearchKeyword throws (the input field is not found): the catch of
\* line 531 returns null without detaching the handler.
SearchInputFails ==
  /\ searchPc = "typing"
  /\ attemptYield' = Append(attemptYield, FALSE)
  /\ searchPc' = "throttle"
  /\ UNCHANGED <<originalAppName, length, searchAttempts, capturedData,
                 capturedNotes, inFlight, accepted, searchResult>>
  /\ UNCHANGED nonSearchVars

\* The keyword is typed and Enter pressed (lines 516-519): the search
\* surface sends the request for searchTerm.
SearchInputOk ==
  /\ searchPc = "typing"
  /\ inFlight' = inFlight \cup {searchTerm}
  /\ searchPc' = "waiting"
  /\ UNCHANGED <<originalAppName, length, searchAttempts, attemptYield,
                 capturedData, capturedNotes, accepted, searchResult>>
  /\ UNCHANGED nonSearchVars

\* The 3 s window ends (lines 522-530); recursiveSearch returns the data
\* when there is some (lines 384-396).
SearchWindowEnds ==
  /\ searchPc = "waiting"
  /\ attemptYield' = Append(attemptYield, capturedData # <<>>)
  /\ IF capturedData # <<>>
       THEN /\ searchResult' = [status |-> "success",
                                data |-> ResultData(capturedData[1]),
                                usedSearchTerm |-> searchTerm,
                                attempts |-> searchAttempts]
            /\ searchPc' = "done"
       ELSE /\ searchPc' = "throttle"
            /\ UNCHANGED searchResult
  /\ UNCHANGED <<originalAppName, length, searchAttempts, capturedData,
                 capturedNotes, inFlight, accepted>>
  /\ UNCHANGED nonSearchVars

\* page.waitForTimeout(1500) ends (line 412); the loop decrements length.
SearchThrottleEnds ==
  /\ searchPc = "throttle"
  /\ length' = length - 1
  /\ searchPc' = "loop"
  /\ UNCHANGED <<originalAppName, searchAttempts, attemptYield,
                 capturedData, capturedNotes, inFlight, accepted, searchResult>>
  /\ UNCHANGED nonSearchVars

\* The response to the search for `keyword` reaches the page, carrying
\* `body`: the handler of the running attempt, when attached, tests its URL
\* (lines 445-449) and builds capturedData (lines 468-495).
ResponseArrives(keyword, body) ==
  /\ searchPc \in {"loop", "typing", "waiting", "throttle"}
  /\ keyword \in inFlight
  /\ inFlight' = inFlight \ {keyword}
  /\ IF searchPc \in {"typing", "waiting"}
        /\ HandlerMatches(SearchUrl(keyword), searchTerm)
       THEN /\ accepted' = <<searchTerm, keyword>>
            /\ IF body.success /\ Len(body.notes) > 0
                 THEN /\ capturedData' = <<Capture(body.notes)>>
                      /\ capturedNotes' = body.notes
                 ELSE UNCHANGED <<capturedData, capturedNotes>>
       ELSE UNCHANGED <<accepted, capturedData, capturedNotes>>
  /\ UNCHANGED <<originalAppName, searchPc, length, searchAttempts, attemptYield,
                 searchResult>>
  /\ UNCHANGED nonSearchVars

\* ------------------------------------------------------------------------
\* DataUpdateService: updateNoteWithEmailNotification, updateNoteInSupabase
\* (src/data-update/data-update.service.ts)
\* ------------------------------------------------------------------------
CountFields ==
  {"likes_count", "collects_count", "comments_count", "views_count", "shares_count"}

\* The stored counts of a note: each optional ({} or {n}).
StoredCounts == {{}, {10}}

\* The crawled counts.
CrawledCounts == {0, 10, 15}

Notes == [app_id : {{}, {"app1"}}, counts : [CountFields -> StoredCounts]]

NewDatas == [CountFields -> CrawledCounts]

\* hasChanges of lines 398-403.
HasChangesIgnoringShares(n, d) ==
  \/ d.likes_count # OrZero(n.counts.likes_count)
  \/ d.collects_count # OrZero(n.counts.collects_count)
  \/ d.comments_count # OrZero(n.counts.comments_count)
  \/ d.views_count # OrZero(n.counts.views_count)

HasChanges(n, d) ==
  \/ d.likes_count # OrZero(n.counts.likes_count)
  \/ d.collects_count # OrZero(n.counts.collects_count)
  \/ d.comments_count # OrZero(n.counts.comments_count)
  \/ d.views_count # OrZero(n.counts.views_count)
  \/ d.shares_count # OrZero(n.counts.shares_count)

\* One entry of the object changes (lines 434-458).
Delta(old, new) == [old |-> OrZero(old), new |-> new, diff |-> new - OrZero(old)]

\* The object changes of lines 433-459.
Changes(n, d) ==
  [likes |-> Delta(n.counts.likes_count, d.likes_count),
   collects |-> Delta(n.counts.collects_count, d.collects_count),
   comments |-> Delta(n.counts.comments_count, d.comments_count),
   views |-> Delta(n.counts.views_count, d.views_count),
   shares |-> Delta(n.counts.shares_count, d.shares_count)]

\* maxRetries of updateNoteInSupabase.
UpdateMaxRetries == 3

\* isRetryableError of lines 319-323.
UpdateRetryable(error) ==
  \E sig \in {"fetch failed", "ECONNRESET", "ETIMEDOUT", "AbortError"} :
    Includes(error, <<sig>>)

ItemInit ==
  /\ note \in Notes
  /\ newData \in NewDatas
  /\ itemPc = "update"
  /\ updateAttempt = 1
  /\ storedRow = note.counts
  /\ updatesDone = 0
  /\ hasChanges = <<>>
  /\ changes = <<>>
  /\ notifications = <<>>
  /\ itemResult = "pending"

ItemOff ==
  /\ note = [app_id |-> {}, counts |-> [f \in CountFields |-> {}]]
  /\ newData = [f \in CountFields |-> 0]
  /\ itemPc = "off"
  /\ updateAttempt = 1
  /\ storedRow = [f \in CountFields |-> {}]
  /\ updatesDone = 0
  /\ hasChanges = <<>>
  /\ changes = <<>>
  /\ notifications = <<>>
  /\ itemResult = "pending"

\* The update of the row succeeds (lines 297-312); then lines 389-410: a
\* note without app_id, or without changes, is done.
ItemUpdateOk ==
  /\ itemPc = "update"
  /\ storedRow' = [f \in CountFields |-> {newData[f]}]
  /\ updatesDone' = updatesDone + 1
  /\ IF note.app_id = {}
       THEN /\ itemPc' = "done"
            /\ itemResult' = "resolved"
            /\ UNCHANGED hasChanges
       ELSE /\ hasChanges' = <<HasChanges(note, newData)>>
            /\ IF HasChanges(note, newData)
                 THEN itemPc' = "getApp" /\ UNCHANGED itemResult
                 ELSE itemPc' = "done" /\ itemResult' = "resolved"
  /\ UNCHANGED <<note, newData, updateAttempt, changes, notifications>>
  /\ UNCHANGED nonItemVars

\* A failed update after which the note goes on to its notification.
UpdateErrorIgnored == "getApp"

\* The error of the update leaves updateNoteWithEmailNotification through
\* its catch (lines 488-501): nothing of lines 389-487 is run.
UpdateErrorRethrown == "done"

\* The update of the row fails with `error` (lines 313-346): retried after
\* a delay, or re-thrown through updateNoteWithEmailNotification (line 501).
ItemUpdateFails(error) ==
  /\ itemPc = "update"
  /\ IF ~UpdateRetryable(error) \/ updateAttempt = UpdateMaxRetries
       THEN itemPc' = UpdateErrorRethrown /\ itemResult' = "rejected"
       ELSE itemPc' = "updateDelay" /\ UNCHANGED itemResult
  /\ UNCHANGED <<note, newData, updateAttempt, storedRow, updatesDone, hasChanges,
                 changes, notifications>>
  /\ UNCHANGED nonItemVars

\* The back-off delay of line 345 ends.
ItemUpdateDelayEnds ==
  /\ itemPc = "updateDelay"
  /\ updateAttempt' = updateAttempt + 1
  /\ itemPc' = "update"
  /\ UNCHANGED <<note, newData, storedRow, updatesDone, hasChanges, changes,
                 notifications, itemResult>>
  /\ UNCHANGED nonItemVars

\* getApplicationByAppId (line 413) returns the application, or null.
ItemGetApp(found) ==
  /\ itemPc = "getApp"
  /\ IF found
       THEN itemPc' = "getEmail" /\ UNCHANGED itemResult
       ELSE itemPc' = "done" /\ itemResult' = "resolved"
  /\ UNCHANGED <<note, newData, updateAttempt, storedRow, updatesDone, hasChanges,
                 changes, notifications>>
  /\ UNCHANGED nonItemVars

\* getUserEmailByUserId (line 422) returns the address, or null; with an
\* address the object changes is built (lines 433-459).
ItemGetEmail(found) ==
  /\ itemPc = "getEmail"
  /\ IF found
       THEN /\ changes' = <<Changes(note, newData)>>
            /\ itemPc' = "send"
            /\ UNCHANGED itemResult
       ELSE /\ itemPc' = "done"
            /\ itemResult' = "resolved"
            /\ UNCHANGED changes
  /\ UNCHANGED <<note, newData, updateAttempt, storedRow, updatesDone, hasChanges,
                 notifications>>
  /\ UNCHANGED nonItemVars

ResultSendRethrown(outcome) == IF outcome = "sent" THEN "resolved" ELSE "rejected"

\* The result of sendNoteNotification is not looked at and its error is
\* caught and logged (lines 462-487).
ResultAfterSend(outcome) == "resolved"

\* sendNoteNotification is called with the changes (lines 462-487); whether
\* it delivers, reports failure or throws, the note is done.
ItemSend(outcome) ==
  /\ itemPc = "send"
  /\ notifications' = Append(notifications,
                             [action |-> "updated", changes |-> changes[1],
                              outcome |-> outcome])
  /\ itemPc' = "done"
  /\ itemResult' = ResultAfterSend(outcome)
  /\ UNCHANGED <<note, newData, updateAttempt, storedRow, updatesDone, hasChanges,
                 changes>>
  /\ UNCHANGED nonItemVars

NextItem ==
  \/ ItemUpdateOk
  \/ \E error \in ErrorMessages : ItemUpdateFails(error)
  \/ ItemUpdateDelayEnds
  \/ \E found \in BOOLEAN : ItemGetApp(found)
  \/ \E found \in BOOLEAN : ItemGetEmail(found)
  \/ \E outcome \in {"sent", "failed", "threw"} : ItemSend(outcome)

\* ------------------------------------------------------------------------
\* AuthService.updateSystemStatus (src/unnamed/part_003, lines 577-598) and
\* RedisService (src/app.module.ts, lines 82-163)
\* ------------------------------------------------------------------------
InitialStatus ==
  [loginStatus |-> "idle", updateStatus |-> "idle",
   progress |-> [total |-> 0, processed |-> 0, failed |-> 0],
   lastUpdate |-> FALSE, error |-> ""]

\* The synchronous part of updateSystemStatus: `updates` (a function from
\* some of the fields to values) is merged into the status and lastUpdate set.
Merged(status, updates) ==
  [f \in DOMAIN status |->
     IF f = "lastUpdate" THEN TRUE
     ELSE IF f \in DOMAIN updates THEN updates[f] ELSE status[f]]

Progress(total, processed, failed) ==
  [total |-> total, processed |-> processed, failed |-> failed]

\* redisService.setProgress(value): the SETEX of a caller that awaits it and
\* does nothing else meanwhile is taken to arrive with the call; a rejected
\* command (~ok) leaves the record as it was.
StoreAfterSet(store, value, ok) == IF ok THEN <<value>> ELSE store

\* A Redis command may fail while fewer than MaxRedisFailures have.
RedisOutcome(ok) ==
  /\ ok \/ redisFailures < MaxRedisFailures
  /\ redisFailures' = IF ok THEN redisFailures ELSE redisFailures + 1

\* updateSystemStatus(updates) up to its await: the status is merged in
\* memory and handed to setProgress, whose rejection is caught (lines
\* 594-597). The caller goes on in a later step.
UpdateSystemStatus(updates, ok) ==
  /\ RedisOutcome(ok)
  /\ systemStatus' = Merged(systemStatus, updates)
  /\ redisStore' = StoreAfterSet(redisStore, systemStatus', ok)

StatusInit ==
  /\ systemStatus = InitialStatus
  /\ redisStore = <<>>
  /\ redisFailures = 0

\* ------------------------------------------------------------------------
\* DataUpdateService.startBatchUpdate and processBatchWithConcurrency
\* (src/data-update/data-update.service.ts)
\* ------------------------------------------------------------------------
Runs == 1..MaxRuns

maxConcurrentRequests == 3

RECURSIVE SumSeq(_)
SumSeq(q) == IF q = <<>> THEN 0 ELSE Head(q) + SumSeq(Tail(q))

\* The applications counted instead of their notes.
ApplicationCount(apps) == Len(apps)

\* totalNotes (lines 81-84): the notes of all the applications fetched.
TotalNotes(apps) == SumSeq(apps)

\* An application has one note, or enough notes for a second chunk.
NoteCounts == {1, MaxNotesPerApp}

\* The locals of an invocation. The notes of a chunk are not told apart:
\* inFlight counts the processor(item) calls not yet settled and writing
\* the onComplete calls awaiting their updateSystemStatus; sent holds the
\* status each of them serialized for its SETEX request, which is one HTTP
\* request of the @upstash/redis client and has yet to reach the store.
\* lookups counts the calls of crawlNoteDataByAppName for the application
\* at idx, and lookupError is the error the last of them gave (NoError:
\* none).
IdleRun ==
  [pc |-> "idle", next |-> "", apps |-> <<>>, idx |-> 0,
   processed |-> 0, failed |-> 0, totalNotes |-> 0, chunk |-> 0,
   inFlight |-> 0, writing |-> 0, sent |-> {}, lookups |-> 0,
   lookupError |-> NoError]

BatchInit ==
  /\ isUpdating = FALSE
  /\ dataStore \in SeqsUpTo(NoteCounts, MaxApps)
  /\ run = [r \in Runs |-> IdleRun]

BatchOff ==
  /\ isUpdating = FALSE
  /\ dataStore = <<>>
  /\ run = [r \in Runs |-> [IdleRun EXCEPT !.pc = "off"]]

WholeRest(n, chunk) == n - chunk

\* The size of the chunk starting at offset `chunk` of `n` notes (line 519);
\* every processor(item) of it is started at once (line 520).
ChunkSize(n, chunk) == Min(maxConcurrentRequests, n - chunk)

\* The single-flight test of line 48.
GuardNeverRejects(updating) == FALSE

GuardRejects(updating) == updating

\* The r-th invocation of startBatchUpdate: rejected by the guard (lines
\* 48-51), or it takes the guard and publishes "updating" (lines 53-65).
EnterBatch(r, ok) ==
  /\ run[r].pc = "idle"
  /\ \A q \in Runs : q < r => run[q].pc # "idle"
  /\ IF GuardRejects(isUpdating)
       THEN /\ ok
            /\ run' = [run EXCEPT ![r].pc = "rejected"]
            /\ UNCHANGED <<isUpdating, statusVars>>
       ELSE /\ isUpdating' = TRUE
            /\ UpdateSystemStatus([updateStatus |-> "updating",
                                   progress |-> Progress(0, 0, 0)], ok)
            /\ run' = [run EXCEPT ![r].pc = "statusWrite", ![r].next = "fetch"]
  /\ UNCHANGED dataStore

\* startBatchUpdate invoked from outside the login flow.
StartBatchUpdate(r, ok) ==
  /\ EnterBatch(r, ok)
  /\ UNCHANGED nonBatchVars

\* The locals of a run that has returned are gone.
EndedRun == [IdleRun EXCEPT !.pc = "ended"]

\* The run after the updateSystemStatus it awaited.
Resumed(rec) ==
  IF rec.next = "ended" THEN EndedRun
  ELSE [rec EXCEPT !.pc = rec.next, !.next = ""]

GuardKept(nextPc, updating) == updating

\* The `finally` of line 208 as part of the step that ends the run.
GuardAfter(nextPc, updating) == IF nextPc = "ended" THEN FALSE ELSE updating

\* An updateSystemStatus awaited by the run itself has returned; the run
\* goes on: to the fetch, to the first lookup, to the delay after an
\* application, to the delete, or out through `finally`.
RunStatusWritten(r) ==
  /\ run[r].pc = "statusWrite"
  /\ run' = [run EXCEPT ![r] = Resumed(run[r])]
  /\ isUpdating' = GuardAfter(run[r].next, isUpdating)
  /\ UNCHANGED <<statusVars, dataStore>>
  /\ UNCHANGED nonBatchVars

\* fetchAllApplicationsWithNotes has returned null (~fetched) or the
\* applications with notes (lines 68-93): nothing to do, or the total is
\* published.
FetchApplications(r, fetched, ok) ==
  /\ run[r].pc = "fetch"
  /\ IF ~fetched \/ dataStore = <<>>
       THEN /\ UpdateSystemStatus([updateStatus |-> "completed"], ok)
            /\ run' = [run EXCEPT ![r].pc = "statusWrite", ![r].next = "deleteProgress"]
       ELSE /\ UpdateSystemStatus([progress |-> Progress(TotalNotes(dataStore), 0, 0)], ok)
            /\ run' = [run EXCEPT ![r].pc = "statusWrite", ![r].next = "lookup",
                                  ![r].apps = dataStore, ![r].idx = 1,
                                  ![r].lookups = 1,
                                  ![r].totalNotes = TotalNotes(dataStore),
                                  ![r].processed = 0, ![r].failed = 0]
  /\ UNCHANGED <<isUpdating, dataStore>>
  /\ UNCHANGED nonBatchVars

CountersFailedOnly(rec, n) ==
  [processed |-> rec.processed, failed |-> rec.failed + n]

\* What a lookup without data reports (result.error of line 152, or the
\* error caught at line 163): a transient network error, or that no note
\* was found under any search term.
LookupErrors == { <<"read", "ECONNRESET">>, <<"All search attempts failed">> }

\* The counters after a lookup that gave no data (lines 148-149, 164-165).
CountersAfterFailedLookup(rec, n) ==
  [processed |-> rec.processed + n, failed |-> rec.failed + n]

\* crawlNoteDataByAppName has returned data for application idx (lines
\* 112-124): the first chunk of its notes is started.
LookupGivesData(r) ==
  /\ run[r].pc = "lookup"
  /\ run' = [run EXCEPT ![r].pc = "chunk", ![r].chunk = 0,
                        ![r].inFlight = ChunkSize(run[r].apps[run[r].idx], 0)]
  /\ UNCHANGED <<isUpdating, statusVars, dataStore>>
  /\ UNCHANGED nonBatchVars

\* crawlNoteDataByAppName has returned without data (NotFound, not logged
\* in; lines 146-162) or has thrown (lines 163-179): all notes of the
\* application are counted as failed and the progress is published.
LookupFails(r, error, ok) ==
  /\ run[r].pc = "lookup"
  /\ LET c == CountersAfterFailedLookup(run[r], run[r].apps[run[r].idx])
     IN  /\ UpdateSystemStatus(
               [progress |-> Progress(run[r].totalNotes, c.processed, c.failed)], ok)
         /\ run' = [run EXCEPT ![r].pc = "statusWrite", ![r].next = "entityDelay",
                               ![r].processed = c.processed, ![r].failed = c.failed,
                               ![r].lookupError = error]
  /\ UNCHANGED <<isUpdating, dataStore>>
  /\ UNCHANGED nonBatchVars

CountersFailureInBoth(rec, success) ==
  [processed |-> rec.processed + 1,
   failed |-> IF success THEN rec.failed ELSE rec.failed + 1]

\* onComplete (lines 125-133): processed++ for a note that was updated,
\* failed++ for one that was not.
CountersAfterItem(rec, success) ==
  [processed |-> IF success THEN rec.processed + 1 ELSE rec.processed,
   failed |-> IF success THEN rec.failed ELSE rec.failed + 1]

\* processor(item) has settled for a note of the chunk; onComplete counts
\* it and publishes the progress (lines 125-143, 521-531): the status is
\* merged in memory, serialized and sent to the store. The onComplete
\* calls of a chunk do not wait for one another, so up to
\* maxConcurrentRequests requests are on their way at once.
TaskDone(r, success) ==
  /\ run[r].pc = "chunk"
  /\ run[r].inFlight > 0
  /\ LET p == CountersAfterItem(run[r], success).processed
         f == CountersAfterItem(run[r], success).failed
     IN  /\ systemStatus' = Merged(systemStatus, [progress |-> Progress(run[r].totalNotes, p, f)])
         /\ run' = [run EXCEPT ![r].processed = p, ![r].failed = f,
                               ![r].inFlight = @ - 1, ![r].writing = @ + 1,
                               ![r].sent = @ \cup {systemStatus'}]
  /\ UNCHANGED <<redisStore, redisFailures, isUpdating, dataStore>>
  /\ UNCHANGED nonBatchVars

FirstSettled(rec) == TRUE

\* Promise.all over the chunk (line 534) resolves with the promise that
\* settles last.
ChunkSettled(rec) == rec.inFlight = 0 /\ rec.writing = 1

\* One of the SETEX requests on their way has reached the store, in
\* whatever order the requests arrive, and the updateSystemStatus of its
\* onComplete has returned (a rejection is caught, lines 594-597); with the
\* last one of the chunk Promise.all resolves (line 534) and the delay
\* between chunks, or the one after the application, starts.
TaskStatusWritten(r, ok) ==
  /\ run[r].pc = "chunk"
  /\ run[r].writing > 0
  /\ RedisOutcome(ok)
  /\ LET n == run[r].apps[run[r].idx]
         allDone == ChunkSettled(run[r])
         nextPc == IF ~allDone THEN "chunk"
                   ELSE IF run[r].chunk + maxConcurrentRequests < n
                          THEN "chunkDelay" ELSE "entityDelay"
     IN  \E status \in run[r].sent :
           /\ redisStore' = StoreAfterSet(redisStore, status, ok)
           /\ run' = [run EXCEPT ![r].writing = @ - 1, ![r].pc = nextPc,
                                  ![r].sent = @ \ {status}]
  /\ UNCHANGED <<systemStatus, isUpdating, dataStore>>
  /\ UNCHANGED nonBatchVars

\* The 500 ms between chunks is over (line 538): the next chunk starts.
ChunkDelayEnds(r) ==
  /\ run[r].pc = "chunkDelay"
  /\ LET n == run[r].apps[run[r].idx]
         c == run[r].chunk + maxConcurrentRequests
     IN  run' = [run EXCEPT ![r].pc = "chunk", ![r].chunk = c,
                            ![r].inFlight = ChunkSize(n, c)]
  /\ UNCHANGED <<isUpdating, statusVars, dataStore>>
  /\ UNCHANGED nonBatchVars

\* The 3 s after an application are over (line 187) and another
\* application follows: its lookup starts.
NextApplication(r) ==
  /\ run[r].pc = "entityDelay"
  /\ run[r].idx < Len(run[r].apps)
  /\ run' = [run EXCEPT ![r].pc = "lookup", ![r].idx = @ + 1,
                        ![r].lookups = 1, ![r].lookupError = NoError]
  /\ UNCHANGED <<isUpdating, statusVars, dataStore>>
  /\ UNCHANGED nonBatchVars

StillUpdating == [updateStatus |-> "updating"]

\* The update that ends the loop (lines 194-197); every update stamps
\* lastUpdate.
CompletedUpdate == [updateStatus |-> "completed"]

\* The 3 s after the last application are over: the loop is left and
\* "completed" published (lines 190-197).
AllApplicationsDone(r, ok) ==
  /\ run[r].pc = "entityDelay"
  /\ run[r].idx >= Len(run[r].apps)
  /\ UpdateSystemStatus(CompletedUpdate, ok)
  /\ run' = [run EXCEPT ![r].pc = "statusWrite", ![r].next = "deleteProgress"]
  /\ UNCHANGED <<isUpdating, dataStore>>
  /\ UNCHANGED nonBatchVars

NotDeleted(store) == store

\* redis.del of the progress key (RedisService.deleteProgress).
Deleted(store) == <<>>

\* redisService.deleteProgress has resolved (lines 76, 200): the run ends
\* through `finally`.
DeleteProgressOk(r) ==
  /\ run[r].pc = "deleteProgress"
  /\ RedisOutcome(TRUE)
  /\ redisStore' = Deleted(redisStore)
  /\ isUpdating' = FALSE
  /\ run' = [run EXCEPT ![r] = EndedRun]
  /\ UNCHANGED <<systemStatus, dataStore>>
  /\ UNCHANGED nonBatchVars

FailedSilently(message) == [updateStatus |-> "failed", error |-> ""]

\* The update of the catch of startBatchUpdate (lines 204-207).
FailedUpdate(message) == [updateStatus |-> "failed", error |-> message]

\* redisService.deleteProgress has rejected: the catch of line 202
\* publishes "failed" with the message (a write that may fail as well).
DeleteProgressFails(r, ok) ==
  /\ run[r].pc = "deleteProgress"
  /\ redisFailures + (IF ok THEN 1 ELSE 2) <= MaxRedisFailures
  /\ redisFailures' = redisFailures + (IF ok THEN 1 ELSE 2)
  /\ systemStatus' = Merged(systemStatus, FailedUpdate("redis delete failed"))
  /\ redisStore' = StoreAfterSet(redisStore, systemStatus', ok)
  /\ run' = [run EXCEPT ![r].pc = "statusWrite", ![r].next = "ended"]
  /\ UNCHANGED <<isUpdating, dataStore>>
  /\ UNCHANGED nonBatchVars

NextBatch ==
  \/ \E r \in Runs, ok \in BOOLEAN : StartBatchUpdate(r, ok)
  \/ \E r \in Runs : RunStatusWritten(r)
  \/ \E r \in Runs, fetched \in BOOLEAN, ok \in BOOLEAN : FetchApplications(r, fetched, ok)
  \/ \E r \in Runs : LookupGivesData(r)
  \/ \E r \in Runs, error \in LookupErrors, ok \in BOOLEAN : LookupFails(r, error, ok)
  \/ \E r \in Runs, success \in BOOLEAN : TaskDone(r, success)
  \/ \E r \in Runs, ok \in BOOLEAN : TaskStatusWritten(r, ok)
  \/ \E r \in Runs : ChunkDelayEnds(r)
  \/ \E r \in Runs : NextApplication(r)
  \/ \E r \in Runs, ok \in BOOLEAN : AllApplicationsDone(r, ok)
  \/ \E r \in Runs : DeleteProgressOk(r)
  \/ \E r \in Runs, ok \in BOOLEAN : DeleteProgressFails(r, ok)

\* ------------------------------------------------------------------------
\* AuthService (src/unnamed/part_003, lines 473-983) behind AuthController
\* (src/auth/auth.controller.ts)
\* ------------------------------------------------------------------------
Requests == 1..MaxRequests

NoPage == 0

\* The page a request creates is named after the request.
PageOf(i) == i

NoSession == [page |-> NoPage, isWaitingForSmsCode |-> FALSE]

NoRequest == [kind |-> "none", pc |-> "none", page |-> NoPage]

\* A request that has returned: its locals are gone.
Done == [kind |-> "done", pc |-> "done", page |-> NoPage]

\* What a request gave its caller: the kind of request, the result and, for
\* getAuthenticatedPage, the page.
Returned(kind, result, page) == [kind |-> kind, result |-> result, page |-> page]

NothingReturned == Returned("none", "", NoPage)

Ticks == 1..TimeoutTicks

\* `probed` is the page a tick found logged in (the argument of the call of
\* line 805 that returned true).
NoBody == [pc |-> "none", page |-> NoPage, probed |-> NoPage]

NoPoll == [timer |-> FALSE, elapsed |-> 0, body |-> [t \in Ticks |-> NoBody]]

\* A monitoring whose timer was left running.
NotCleared(p) == p

\* A monitoring whose timer is cleared has no use for `elapsed` any more.
Cleared(p) == [p EXCEPT !.timer = FALSE, !.elapsed = 0]

\* The pages something still refers to: the session, the pool, the locals
\* of the requests being served and of the ticks of the monitorings.
Referenced(session, pooled, requests, polls) ==
  ({session.page, pooled} \cup {requests[i].page : i \in Requests}
     \cup {polls[i].body[t].page : i \in Requests, t \in Ticks}) \ {NoPage}

\* The open pages after a step that leaves the pages `open` open: a page
\* that nothing refers to any more stays open for good, which `leaked`
\* records.
OpenPages(open) ==
  LET refs == Referenced(currentSession', authenticatedPage', request', poll')
  IN  /\ openPages' = open \cap refs
      /\ leaked' = (leaked \/ open \ refs # {})

AuthInit ==
  /\ currentSession = NoSession
  /\ authenticatedPage = NoPage
  /\ openPages = {}
  /\ request = [i \in Requests |-> NoRequest]
  /\ poll = [i \in Requests |-> NoPoll]
  /\ callbacks = 0
  /\ returned = NothingReturned
  /\ leaked = FALSE

AuthOff ==
  /\ currentSession = NoSession
  /\ authenticatedPage = NoPage
  /\ openPages = {}
  /\ request = [i \in Requests |-> Done]
  /\ poll = [i \in Requests |-> NoPoll]
  /\ callbacks = 0
  /\ returned = NothingReturned
  /\ leaked = FALSE

\* Requests arrive one after the other, at most MaxOverlap of them being
\* served at a time.
Arrives(i) ==
  /\ request[i].kind = "none"
  /\ \A j \in Requests : j < i => request[j].kind # "none"
  /\ Cardinality({j \in Requests : request[j].kind \notin {"none", "done"}}) < MaxOverlap

\* getSystemStatus (lines 541-556): the Redis record if there is one, else
\* the status in memory.
StatusSeen == IF redisStore # <<>> THEN redisStore[1] ELSE systemStatus

\* updateSystemStatus as the login flows call it, Redis being available.
PublishLogin(updates) == UpdateSystemStatus(updates, TRUE)

\* cleanupSession (lines 873-888): the session's page is closed and the
\* session reset.
PagesAfterCleanup == openPages \ {currentSession.page}

\* The controller's test before a login is started (lines 65-86).
LoginBlocked(seen) ==
  \/ seen.loginStatus \in {"logging_in", "waiting_sms_code"}
  \/ seen.updateStatus = "updating"

\* POST start-phone-login: the controller reads the status and refuses or
\* lets the request through (auth.controller.ts, lines 62-86).
LoginRequest(i) ==
  /\ Arrives(i)
  /\ IF LoginBlocked(StatusSeen)
       THEN /\ request' = [request EXCEPT ![i] = Done]
            /\ returned' = Returned("login", "rejected", NoPage)
       ELSE /\ request' = [request EXCEPT ![i] = [NoRequest EXCEPT !.kind = "login",
                                                                  !.pc = "checked"]]
            /\ UNCHANGED returned
  /\ UNCHANGED <<currentSession, authenticatedPage, poll, callbacks>>
  /\ OpenPages(openPages)
  /\ UNCHANGED statusVars
  /\ UNCHANGED nonAuthVars

\* startPhoneLoginProcess, lines 604-612: the previous session is cleaned
\* up and "logging_in" published.
LoginBegin(i) ==
  /\ request[i].kind = "login" /\ request[i].pc = "checked"
  /\ currentSession' = NoSession
  /\ PublishLogin([loginStatus |-> "logging_in", error |-> ""])
  /\ request' = [request EXCEPT ![i].pc = "loggingInWrite"]
  /\ UNCHANGED <<authenticatedPage, poll, callbacks, returned>>
  /\ OpenPages(PagesAfterCleanup)
  /\ UNCHANGED nonAuthVars

\* Lines 615-618: createPage has resolved and the page is made the
\* session's.
LoginPageCreated(i) ==
  /\ request[i].kind = "login" /\ request[i].pc = "loggingInWrite"
  /\ currentSession' = [currentSession EXCEPT !.page = PageOf(i)]
  /\ request' = [request EXCEPT ![i].pc = "navigating", ![i].page = PageOf(i)]
  /\ UNCHANGED <<authenticatedPage, poll, callbacks, returned>>
  /\ OpenPages(openPages \cup {PageOf(i)})
  /\ UNCHANGED statusVars
  /\ UNCHANGED nonAuthVars

\* Lines 621-650: the page was loaded, the phone number typed and the SMS
\* code requested (none of which works on a closed page), and
\* "waiting_sms_code" is published.
LoginSmsRequested(i) ==
  /\ request[i].kind = "login" /\ request[i].pc = "navigating"
  /\ request[i].page \in openPages
  /\ PublishLogin([loginStatus |-> "waiting_sms_code"])
  /\ request' = [request EXCEPT ![i].pc = "waitingWrite"]
  /\ UNCHANGED <<currentSession, authenticatedPage, poll, callbacks, returned>>
  /\ OpenPages(openPages)
  /\ UNCHANGED nonAuthVars

\* createPage or a step on the login page has thrown: the catch of line
\* 659 publishes "failed".
LoginThrows(i) ==
  /\ request[i].kind = "login" /\ request[i].pc \in {"loggingInWrite", "navigating"}
  /\ PublishLogin([loginStatus |-> "failed", error |-> "login failed"])
  /\ request' = [request EXCEPT ![i].pc = "failedWrite"]
  /\ UNCHANGED <<currentSession, authenticatedPage, poll, callbacks, returned>>
  /\ OpenPages(openPages)
  /\ UNCHANGED nonAuthVars

\* Lines 651-657: after the status update the session waits for the code.
LoginWaitingWritten(i) ==
  /\ request[i].kind = "login" /\ request[i].pc = "waitingWrite"
  /\ currentSession' = [currentSession EXCEPT !.isWaitingForSmsCode = TRUE]
  /\ request' = [request EXCEPT ![i] = Done]
  /\ returned' = Returned("login", "success", NoPage)
  /\ UNCHANGED <<authenticatedPage, poll, callbacks>>
  /\ OpenPages(openPages)
  /\ UNCHANGED statusVars
  /\ UNCHANGED nonAuthVars

\* The end of the catch of startPhoneLoginProcess (lines 664-665) and of
\* submitSmsCode (lines 701-702): the session is cleaned up.
FailedWritten(i) ==
  /\ request[i].pc = "failedWrite"
  /\ currentSession' = NoSession
  /\ request' = [request EXCEPT ![i] = Done]
  /\ returned' = Returned(request[i].kind, "error", NoPage)
  /\ UNCHANGED <<authenticatedPage, poll, callbacks>>
  /\ OpenPages(PagesAfterCleanup)
  /\ UNCHANGED statusVars
  /\ UNCHANGED nonAuthVars

\* POST submit-sms-code: the controller lets the request through only in
\* "waiting_sms_code" (auth.controller.ts, lines 152-165).
SubmitRequest(i) ==
  /\ Arrives(i)
  /\ IF StatusSeen.loginStatus # "waiting_sms_code"
       THEN /\ request' = [request EXCEPT ![i] = Done]
            /\ returned' = Returned("submit", "rejected", NoPage)
       ELSE /\ request' = [request EXCEPT ![i] = [NoRequest EXCEPT !.kind = "submit",
                                                                  !.pc = "checked"]]
            /\ UNCHANGED returned
  /\ UNCHANGED <<currentSession, authenticatedPage, poll, callbacks>>
  /\ OpenPages(openPages)
  /\ UNCHANGED statusVars
  /\ UNCHANGED nonAuthVars

\* The test of submitSmsCode (lines 674-677).
NoActiveChallenge(session) == session.page = NoPage \/ ~session.isWaitingForSmsCode

\* submitSmsCode, lines 673-684: without a session waiting for the code it
\* throws into its catch, which publishes "failed"; else it types the code
\* into the session's page.
SubmitBegin(i) ==
  /\ request[i].kind = "submit" /\ request[i].pc = "checked"
  /\ IF NoActiveChallenge(currentSession)
       THEN /\ PublishLogin([loginStatus |-> "failed", error |-> "login failed"])
            /\ request' = [request EXCEPT ![i].pc = "failedWrite"]
       ELSE /\ request' = [request EXCEPT ![i].pc = "typing", ![i].page = currentSession.page]
            /\ UNCHANGED statusVars
  /\ UNCHANGED <<currentSession, authenticatedPage, poll, callbacks, returned>>
  /\ OpenPages(openPages)
  /\ UNCHANGED nonAuthVars

\* Lines 684-692: the code was typed and the login button clicked (neither
\* works on a closed page), and the login monitoring is started.
SubmitTyped(i) ==
  /\ request[i].kind = "submit" /\ request[i].pc = "typing"
  /\ request[i].page \in openPages
  /\ poll' = [poll EXCEPT ![i] = [NoPoll EXCEPT !.timer = TRUE]]
  /\ request' = [request EXCEPT ![i] = Done]
  /\ returned' = Returned("submit", "success", NoPage)
  /\ UNCHANGED <<currentSession, authenticatedPage, callbacks>>
  /\ OpenPages(openPages)
  /\ UNCHANGED statusVars
  /\ UNCHANGED nonAuthVars

\* Typing the code or clicking the button has thrown: the catch of line
\* 694 publishes "failed".
SubmitThrows(i) ==
  /\ request[i].kind = "submit" /\ request[i].pc = "typing"
  /\ PublishLogin([loginStatus |-> "failed", error |-> "login failed"])
  /\ request' = [request EXCEPT ![i].pc = "failedWrite"]
  /\ UNCHANGED <<currentSession, authenticatedPage, poll, callbacks, returned>>
  /\ OpenPages(openPages)
  /\ UNCHANGED nonAuthVars

\* A tick that did not add to `elapsed`.
ElapsedStuck(p) == p.elapsed

\* `elapsed += checkInterval` (line 784), in ticks.
Elapsed(p) == p.elapsed + 1

\* The timer of startLoginMonitoring fires at the timeout (lines 783-796):
\* it is cleared and "failed" published.
PollTimeout(i) ==
  /\ poll[i].timer
  /\ Elapsed(poll[i]) >= TimeoutTicks
  /\ PublishLogin([loginStatus |-> "failed", error |-> "Login timeout"])
  /\ poll' = [poll EXCEPT ![i] =
                [Cleared(poll[i]) EXCEPT !.body[poll[i].elapsed + 1].pc = "timeoutWrite"]]
  /\ UNCHANGED <<currentSession, authenticatedPage, request, callbacks, returned>>
  /\ OpenPages(openPages)
  /\ UNCHANGED nonAuthVars

\* The timer fires before the timeout and finds no session page (lines
\* 783-802): it is cleared and the session reset.
PollStops(i) ==
  /\ poll[i].timer
  /\ Elapsed(poll[i]) < TimeoutTicks
  /\ currentSession.page = NoPage
  /\ poll' = [poll EXCEPT ![i] = Cleared(poll[i])]
  /\ currentSession' = NoSession
  /\ UNCHANGED <<authenticatedPage, request, callbacks, returned>>
  /\ OpenPages(openPages)
  /\ UNCHANGED statusVars
  /\ UNCHANGED nonAuthVars

\* The timer fires before the timeout (lines 783-806): the session's page
\* is probed.
PollTick(i) ==
  /\ poll[i].timer
  /\ Elapsed(poll[i]) < TimeoutTicks
  /\ currentSession.page # NoPage
  /\ poll' = [poll EXCEPT ![i].elapsed = Elapsed(poll[i]),
                          ![i].body[poll[i].elapsed + 1] =
                             [pc |-> "probing", page |-> currentSession.page,
                              probed |-> NoPage]]
  /\ UNCHANGED <<currentSession, authenticatedPage, request, callbacks, returned>>
  /\ OpenPages(openPages)
  /\ UNCHANGED statusVars
  /\ UNCHANGED nonAuthVars

\* The invocations of startBatchUpdate so far.
Entered == Cardinality({r \in Runs : run[r].pc # "idle"})

\* The logins the monitorings have seen so far: those whose "logged_in" is
\* being written, those whose callback is pending and those whose callback
\* has invoked startBatchUpdate. No more than MaxRuns of them are let
\* happen.
LoginsSoFar ==
  Cardinality({<<i, t>> \in Requests \X Ticks : poll[i].body[t].pc = "loggedInWrite"})
    + callbacks + Entered

\* checkLoginStatus has told the tick that called it that the page is
\* logged in (lines 804-811): the timer is cleared and "logged_in"
\* published.
ProbeLoggedIn(i, t) ==
  /\ poll[i].body[t].pc = "probing"
  /\ LoginsSoFar < MaxRuns
  /\ PublishLogin([loginStatus |-> "logged_in"])
  /\ poll' = [poll EXCEPT ![i] =
                [Cleared(poll[i]) EXCEPT !.body[t] = [pc |-> "loggedInWrite",
                                                      page |-> NoPage,
                                                      probed |-> poll[i].body[t].page]]]
  /\ UNCHANGED <<currentSession, authenticatedPage, request, callbacks, returned>>
  /\ OpenPages(openPages)
  /\ UNCHANGED nonAuthVars

\* checkLoginStatus has told the tick that the page is not logged in, or
\* has failed (lines 821-831): the tick returns.
ProbeNotLoggedIn(i, t) ==
  /\ poll[i].body[t].pc = "probing"
  /\ poll' = [poll EXCEPT ![i].body[t] = NoBody]
  /\ UNCHANGED <<currentSession, authenticatedPage, request, callbacks, returned>>
  /\ OpenPages(openPages)
  /\ UNCHANGED statusVars
  /\ UNCHANGED nonAuthVars

\* No callback was scheduled.
NotScheduled(pending) == pending

\* setTimeout of line 815: one more call of onLoginSuccess is pending.
Scheduled(pending) == pending + 1

\* Lines 812-820: onLoginSuccess is scheduled and the session cleaned up.
LoggedInWritten(i, t) ==
  /\ poll[i].body[t].pc = "loggedInWrite"
  /\ callbacks' = Scheduled(callbacks)
  /\ currentSession' = NoSession
  /\ poll' = [poll EXCEPT ![i].body[t] = NoBody]
  /\ UNCHANGED <<authenticatedPage, request, returned>>
  /\ OpenPages(PagesAfterCleanup)
  /\ UNCHANGED statusVars
  /\ UNCHANGED nonAuthVars

\* Lines 797-801: after the timeout the pooled page (cleanupAuthenticatedPage,
\* lines 891-901) and the session are cleaned up.
TimeoutWritten(i, t) ==
  /\ poll[i].body[t].pc = "timeoutWrite"
  /\ authenticatedPage' = NoPage
  /\ currentSession' = NoSession
  /\ poll' = [poll EXCEPT ![i].body[t] = NoBody]
  /\ UNCHANGED <<request, callbacks, returned>>
  /\ OpenPages(openPages \ {authenticatedPage, currentSession.page})
  /\ UNCHANGED statusVars
  /\ UNCHANGED nonAuthVars

\* A test that lets every caller through.
AlwaysLoggedIn(status) == FALSE

\* The test of getAuthenticatedPage (line 905), on the status in memory.
NotLoggedIn(status) == status.loginStatus # "logged_in"

\* getAuthenticatedPage is called (lines 904-917, 934): null unless logged
\* in; the pooled page, if open, is probed again; else a page is created.
GetRequest(i) ==
  /\ Arrives(i)
  /\ IF NotLoggedIn(systemStatus)
       THEN /\ request' = [request EXCEPT ![i] = Done]
            /\ returned' = Returned("get", "null", NoPage)
       ELSE /\ request' = [request EXCEPT ![i] =
                 IF authenticatedPage \in openPages
                   THEN [kind |-> "get", pc |-> "reprobe", page |-> authenticatedPage]
                   ELSE [kind |-> "get", pc |-> "creating", page |-> NoPage]]
            /\ UNCHANGED returned
  /\ UNCHANGED <<currentSession, authenticatedPage, poll, callbacks>>
  /\ OpenPages(openPages)
  /\ UNCHANGED statusVars
  /\ UNCHANGED nonAuthVars

NotPooled(pooled) == NoPage

\* Line 917: the page the call gives back is the one in the pool.
Pooled(pooled) == pooled

\* The probe of the pooled page says it is logged in (lines 914-917): the
\* pooled page is returned.
GetReuses(i) ==
  /\ request[i].kind = "get" /\ request[i].pc = "reprobe"
  /\ request' = [request EXCEPT ![i] = Done]
  /\ returned' = Returned("get", "page", Pooled(authenticatedPage))
  /\ UNCHANGED <<currentSession, authenticatedPage, poll, callbacks>>
  /\ OpenPages(openPages)
  /\ UNCHANGED statusVars
  /\ UNCHANGED nonAuthVars

\* The probe of the pooled page says it is not logged in (lines 918-934):
\* the pooled page is closed and forgotten and a new page created.
GetDiscards(i) ==
  /\ request[i].kind = "get" /\ request[i].pc = "reprobe"
  /\ authenticatedPage' = NoPage
  /\ request' = [request EXCEPT ![i].pc = "creating", ![i].page = NoPage]
  /\ UNCHANGED <<currentSession, poll, callbacks, returned>>
  /\ OpenPages(openPages \ {authenticatedPage})
  /\ UNCHANGED statusVars
  /\ UNCHANGED nonAuthVars

\* The new page was created, loaded and found logged in (lines 934-957):
\* it is pooled and returned.
GetCreatedValid(i) ==
  /\ request[i].kind = "get" /\ request[i].pc = "creating"
  /\ authenticatedPage' = PageOf(i)
  /\ request' = [request EXCEPT ![i] = Done]
  /\ returned' = Returned("get", "page", PageOf(i))
  /\ UNCHANGED <<currentSession, poll, callbacks>>
  /\ OpenPages(openPages \cup {PageOf(i)})
  /\ UNCHANGED statusVars
  /\ UNCHANGED nonAuthVars

\* The new page was found not logged in (lines 941-945): it is closed and
\* "idle" published.
GetCreatedInvalid(i) ==
  /\ request[i].kind = "get" /\ request[i].pc = "creating"
  /\ PublishLogin([loginStatus |-> "idle"])
  /\ request' = [request EXCEPT ![i].pc = "idleWrite"]
  /\ UNCHANGED <<currentSession, authenticatedPage, poll, callbacks, returned>>
  /\ OpenPages(openPages)
  /\ UNCHANGED nonAuthVars

\* Loading the new page threw (lines 934-938): the call fails and the page
\* stays open.
GetCreatedThrew(i) ==
  /\ request[i].kind = "get" /\ request[i].pc = "creating"
  /\ request' = [request EXCEPT ![i] = Done]
  /\ returned' = Returned("get", "error", NoPage)
  /\ UNCHANGED <<currentSession, authenticatedPage, poll, callbacks>>
  /\ OpenPages(openPages \cup {PageOf(i)})
  /\ UNCHANGED statusVars
  /\ UNCHANGED nonAuthVars

\* Lines 943-944: after the status update null is returned.
GetIdleWritten(i) ==
  /\ request[i].kind = "get" /\ request[i].pc = "idleWrite"
  /\ request' = [request EXCEPT ![i] = Done]
  /\ returned' = Returned("get", "null", NoPage)
  /\ UNCHANGED <<currentSession, authenticatedPage, poll, callbacks>>
  /\ OpenPages(openPages)
  /\ UNCHANGED statusVars
  /\ UNCHANGED nonAuthVars

\* The timer of line 815 fires: onLoginSuccess, the callback that the
\* DataUpdateService registered (data-update.service.ts, lines 40-43),
\* invokes startBatchUpdate.
CallbackFires(r) ==
  /\ callbacks > 0
  /\ callbacks' = callbacks - 1
  /\ EnterBatch(r, TRUE)
  /\ UNCHANGED <<currentSession, authenticatedPage, request, poll, returned>>
  /\ OpenPages(openPages)
  /\ UNCHANGED <<retryVars, searchVars, itemVars>>

NextAuth ==
  \/ \E i \in Requests : LoginRequest(i)
  \/ \E i \in Requests : LoginBegin(i)
  \/ \E i \in Requests : LoginPageCreated(i)
  \/ \E i \in Requests : LoginSmsRequested(i)
  \/ \E i \in Requests : LoginThrows(i)
  \/ \E i \in Requests : LoginWaitingWritten(i)
  \/ \E i \in Requests : FailedWritten(i)
  \/ \E i \in Requests : SubmitRequest(i)
  \/ \E i \in Requests : SubmitBegin(i)
  \/ \E i \in Requests : SubmitTyped(i)
  \/ \E i \in Requests : SubmitThrows(i)
  \/ \E i \in Requests : PollTimeout(i)
  \/ \E i \in Requests : PollStops(i)
  \/ \E i \in Requests : PollTick(i)
  \/ \E i \in Requests, t \in Ticks : ProbeLoggedIn(i, t)
  \/ \E i \in Requests, t \in Ticks : ProbeNotLoggedIn(i, t)
  \/ \E i \in Requests, t \in Ticks : LoggedInWritten(i, t)
  \/ \E i \in Requests, t \in Ticks : TimeoutWritten(i, t)
  \/ \E i \in Requests : GetRequest(i)
  \/ \E i \in Requests : GetReuses(i)
  \/ \E i \in Requests : GetDiscards(i)
  \/ \E i \in Requests : GetCreatedValid(i)
  \/ \E i \in Requests : GetCreatedInvalid(i)
  \/ \E i \in Requests : GetCreatedThrew(i)
  \/ \E i \in Requests : GetIdleWritten(i)
  \/ \E r \in Runs : CallbackFires(r)
  \/ \E r \in Runs : RunStatusWritten(r)
  \/ \E r \in Runs, fetched \in BOOLEAN : FetchApplications(r, fetched, TRUE)
  \/ \E r \in Runs : DeleteProgressOk(r)

NextSearch ==
  \/ SearchAttach
  \/ SearchExhausted
  \/ SearchInputFails
  \/ SearchInputOk
  \/ SearchWindowEnds
  \/ SearchThrottleEnds
  \/ \E keyword \in inFlight, body \in ResponseBodies : ResponseArrives(keyword, body)

NextRetry ==
  \/ RetryFnReturns
  \/ \E error \in ErrorMessages : RetryFnThrows(error)
  \/ RetryDelayEnds

InitRetry == RetryInit /\ SearchOff /\ ItemOff /\ StatusInit /\ BatchOff /\ AuthOff

SpecRetry == InitRetry /\ [][NextRetry]_vars

InitSearch == SearchInit /\ RetryOff /\ ItemOff /\ StatusInit /\ BatchOff /\ AuthOff

SpecSearch == InitSearch /\ [][NextSearch]_vars

\* A step of recursiveSearch itself: its awaits (typing, the 3 s window,
\* the 1.5 s pause) all end.
SearchStep ==
  \/ SearchAttach
  \/ SearchExhausted
  \/ SearchInputFails
  \/ SearchInputOk
  \/ SearchWindowEnds
  \/ SearchThrottleEnds

SpecSearchLive == InitSearch /\ [][NextSearch]_vars /\ WF_vars(SearchStep)

InitItem == ItemInit /\ RetryOff /\ SearchOff /\ StatusInit /\ BatchOff /\ AuthOff

SpecItem == InitItem /\ [][NextItem]_vars

InitBatch == BatchInit /\ StatusInit /\ RetryOff /\ SearchOff /\ ItemOff /\ AuthOff

SpecBatch == InitBatch /\ [][NextBatch]_vars

\* The services as constructed, with no application to update.
InitAuth ==
  AuthInit /\ StatusInit /\ RetryOff /\ SearchOff /\ ItemOff /\ BatchInit /\ dataStore = <<>>

SpecAuth == InitAuth /\ [][NextAuth]_vars

\* A timer set by setInterval (line 783) fires again and again until it is
\* cleared.
TimerFires(i) == PollTimeout(i) \/ PollStops(i) \/ PollTick(i)

\* The status update a tick awaits settles, and a timer set by setTimeout
\* (line 815) fires.
SpecAuthLive ==
  /\ InitAuth /\ [][NextAuth]_vars
  /\ \A i \in Requests : WF_vars(TimerFires(i))
  /\ \A i \in Requests, t \in Ticks : WF_vars(LoggedInWritten(i, t))
  /\ WF_vars(\E r \in Runs : CallbackFires(r))

\* ------------------------------------------------------------------------
\* Properties of recursiveSearch (under SpecSearch)
\* ------------------------------------------------------------------------
Max(a, b) == IF a >= b THEN a ELSE b

\* The attempts made so far are the prefixes of `name` of length n, n-1, ...
\* down to no less than m, each once; only the last attempt made can have
\* yielded data, and then the search is over with that term; a search that
\* ends without a match has tried every length from n down to m.
NarrowingOver(name) ==
  LET n == Len(name)
      m == minSearchLength(name)
  IN  /\ \A i \in 1..Len(searchAttempts) :
            /\ n - i + 1 >= m
            /\ searchAttempts[i] = SubSeq(name, 1, n - i + 1)
      /\ Len(attemptYield) <= Len(searchAttempts)
      /\ \A i \in 1..Len(attemptYield) :
            attemptYield[i] =>
              /\ i = Len(searchAttempts)
              /\ searchPc = "done"
              /\ searchResult.status = "success"
              /\ searchResult.usedSearchTerm = searchAttempts[i]
      /\ (searchPc = "done" /\ searchResult.status = "success") =>
            /\ Len(attemptYield) = Len(searchAttempts)
            /\ attemptYield[Len(attemptYield)]
      /\ (searchPc = "done" /\ searchResult.status = "failure") =>
            /\ Len(searchAttempts) = Max(0, n - m + 1)
            /\ \A i \in 1..Len(attemptYield) : ~attemptYield[i]

\* C3 (as amended): for a query whose trimmed form has length n and minimum
\* length m, lookup attempts exactly the prefixes of the trimmed query of
\* length n, n-1, ..., m in that order and stops at the first attempt that
\* yields a match.
C3_PrefixesOfTrimmedQuery == NarrowingOver(Trim(originalAppName))

\* C3 (as claimed): the attempts are the prefixes of the query itself, of
\* length n = length(query) down to m.
C3_PrefixesOfQuery == NarrowingOver(originalAppName)

\* A three-character query found at its second, shorter prefix.
C3_Witness ==
  /\ searchPc = "done"
  /\ searchResult.status = "success"
  /\ Len(appName) = 3
  /\ searchAttempts = <<appName, SubSeq(appName, 1, 2)>>
  /\ attemptYield = <<FALSE, TRUE>>

\* C4: the response handler of the attempt for a candidate takes only a
\* response to the search for exactly that candidate, never a late response
\* to the search for an earlier, longer candidate.
C4_ExactCandidateOnly == accepted # <<>> => accepted[1] = accepted[2]

RECURSIVE SumMetric(_, _)
SumMetric(notes, field) ==
  IF notes = <<>> THEN 0
  ELSE OrZero(Head(notes)[field]) + SumMetric(Tail(notes), field)

\* C5: a successful lookup returns, for each of the five metrics, the sum of
\* that metric over all records of the response it captured (a missing
\* metric counting as 0), and the first record's title.
C5_SnapshotIsSumOfRecords ==
  searchResult.status = "success" =>
    /\ capturedNotes # <<>>
    /\ searchResult.data.likes_count = SumMetric(capturedNotes, "likes")
    /\ searchResult.data.collects_count = SumMetric(capturedNotes, "collected_count")
    /\ searchResult.data.comments_count = SumMetric(capturedNotes, "comments_count")
    /\ searchResult.data.views_count = SumMetric(capturedNotes, "view_count")
    /\ searchResult.data.shares_count = SumMetric(capturedNotes, "shared_count")
    /\ searchResult.data.title = capturedNotes[1].display_title

\* Three records with likes 10, 20 and 5 give likes 35 and the first title.
C5_Witness ==
  /\ searchResult.status = "success"
  /\ Len(capturedNotes) = 3
  /\ [i \in 1..3 |-> capturedNotes[i].likes] = <<{10}, {20}, {5}>>
  /\ searchResult.data.likes_count = 35
  /\ searchResult.data.title = capturedNotes[1].display_title

\* ------------------------------------------------------------------------
\* Properties of withRetry (under SpecRetry)
\* ------------------------------------------------------------------------
RetryFinished == retryPc \in {"returned", "thrown"}

AllCallsFailedRetryable ==
  \A i \in 1..Len(fnCalls) :
    fnCalls[i] # NoError /\ retryCondition(retryOptions, fnCalls[i])

\* C6: withRetry calls the operation at most maxRetries + 1 times; when
\* every call fails with a retryable error it calls it exactly
\* maxRetries + 1 times and re-raises the error of the last call.
C6_AtMostMaxRetriesPlusOne ==
  /\ Len(fnCalls) <= retryOptions.maxRetries + 1
  /\ (RetryFinished /\ AllCallsFailedRetryable) =>
        /\ Len(fnCalls) = retryOptions.maxRetries + 1
        /\ retryPc = "thrown"
        /\ thrown = fnCalls[Len(fnCalls)]

\* maxRetries = 2: three calls, all failing with retryable errors, the last
\* error (different from the first) re-raised.
C6_Witness ==
  /\ retryOptions.maxRetries = 2
  /\ retryPc = "thrown"
  /\ AllCallsFailedRetryable
  /\ Len(fnCalls) = 3
  /\ fnCalls[1] # fnCalls[3]
  /\ thrown = fnCalls[3]

\* C7: a call failing with an error that is not retryable is the last call:
\* withRetry re-raises that error at once, with no delay after it, whatever
\* attempts remain.
C7_NonRetryableStopsAtOnce ==
  \A i \in 1..Len(fnCalls) :
    (fnCalls[i] # NoError /\ ~retryCondition(retryOptions, fnCalls[i])) =>
      /\ i = Len(fnCalls)
      /\ retryPc = "thrown"
      /\ thrown = fnCalls[i]
      /\ Len(delays) = i - 1

\* A non-retryable error at the second call with two more attempts left.
C7_Witness ==
  /\ retryOptions.maxRetries = 3
  /\ ~retryOptions.customCondition
  /\ Len(fnCalls) = 2
  /\ ~retryCondition(retryOptions, fnCalls[2])
  /\ retryPc = "thrown"

\* C8 (as amended): with exponentialBackoff left true (the default) the
\* delay after failed attempt k is min(baseDelay * 2^(k-1), maxDelay), so
\* 1000, 2000, 4000, 4000 for baseDelay 1000 and maxDelay 4000; with
\* exponentialBackoff false it is baseDelay after every attempt.
C8_BackoffDelays ==
  /\ \A k \in 1..Len(delays) :
        delays[k] = IF retryOptions.exponentialBackoff
                      THEN Min(retryOptions.baseDelay * Pow2(k - 1), retryOptions.maxDelay)
                      ELSE retryOptions.baseDelay
  /\ ( /\ retryOptions.exponentialBackoff
       /\ retryOptions.baseDelay = 1000
       /\ retryOptions.maxDelay = 4000 ) =>
        \A k \in 1..Min(Len(delays), 4) : delays[k] = <<1000, 2000, 4000, 4000>>[k]

\* C8 (as claimed): the delay after failed attempt k is always
\* min(baseDelay * 2^(k-1), maxDelay).
C8_AlwaysExponential ==
  \A k \in 1..Len(delays) :
    delays[k] = Min(retryOptions.baseDelay * Pow2(k - 1), retryOptions.maxDelay)

\* Four failed attempts with baseDelay 1000 and maxDelay 4000.
C8_Witness ==
  /\ retryOptions.baseDelay = 1000
  /\ retryOptions.maxDelay = 4000
  /\ delays = <<1000, 2000, 4000, 4000>>

\* ------------------------------------------------------------------------
\* Properties of the change detection (under SpecItem)
\* ------------------------------------------------------------------------
ChangeKeys == {"likes", "collects", "comments", "views", "shares"}

CountOf(key) ==
  CASE key = "likes" -> "likes_count"
    [] key = "collects" -> "collects_count"
    [] key = "comments" -> "comments_count"
    [] key = "views" -> "views_count"
    [] key = "shares" -> "shares_count"

\* C9: for the stored and the crawled metrics of a note, hasChanges is true
\* iff at least one of the five deltas has a nonzero diff, each delta being
\* {old, new, diff = new - old} (old 10 and new 15 give diff 5); so a
\* snapshot equal to the stored metrics gives hasChanges = false.
C9_HasChangeIffSomeDiff ==
  /\ hasChanges # <<>> =>
        (hasChanges[1] <=> \E k \in ChangeKeys : Changes(note, newData)[k].diff # 0)
  /\ hasChanges # <<>> =>
        ((\A f \in CountFields : newData[f] = OrZero(note.counts[f])) => ~hasChanges[1])
  /\ changes # <<>> =>
        /\ hasChanges = <<TRUE>>
        /\ \A k \in ChangeKeys :
              /\ changes[1][k].new = newData[CountOf(k)]
              /\ changes[1][k].old + changes[1][k].diff = changes[1][k].new
              /\ note.counts[CountOf(k)] # {} => {changes[1][k].old} = note.counts[CountOf(k)]
              /\ note.counts[CountOf(k)] = {} => changes[1][k].old = 0
        /\ (note.counts.likes_count = {10} /\ newData.likes_count = 15) =>
              changes[1].likes = [old |-> 10, new |-> 15, diff |-> 5]

\* Only the shares differ (stored 10, crawled 15): a change, with diff 5.
C9_Witness ==
  /\ itemPc = "send"
  /\ hasChanges = <<TRUE>>
  /\ changes # <<>>
  /\ changes[1].shares = [old |-> 10, new |-> 15, diff |-> 5]
  /\ \A k \in ChangeKeys \ {"shares"} : changes[1][k].diff = 0

\* ------------------------------------------------------------------------
\* Batch run
\* ------------------------------------------------------------------------
\* The invocation has taken the guard and has not yet returned.
Active(r) == run[r].pc \notin {"off", "idle", "rejected", "ended"}

WithinTotal(progress) == progress.processed + progress.failed <= progress.total

\* C1: at every point of a run, whatever the lookups and the item updates
\* gave, processed + failed <= total, in the in-memory progress and in the
\* progress record held in Redis.
C1_ProcessedPlusFailedWithinTotal ==
  (\E r \in Runs : Active(r)) =>
     /\ WithinTotal(systemStatus.progress)
     /\ redisStore # <<>> => WithinTotal(redisStore[1].progress)

RejectedRun == [IdleRun EXCEPT !.pc = "rejected"]

\* C2: at most one invocation of startBatchUpdate is active at any time; an
\* invocation arriving while another is active returns at once as a no-op
\* (it changes neither the status nor the Redis record, holds no write and
\* no lookup) and is never taken up later.
C2_SingleFlight ==
  [][/\ Cardinality({r \in Runs : Active(r)'}) <= 1
     /\ \A r \in Runs :
          (run[r].pc = "idle" /\ run'[r].pc # "idle" /\ \E q \in Runs \ {r} : Active(q)) =>
             /\ run'[r] = RejectedRun
             /\ UNCHANGED <<systemStatus, redisStore, isUpdating>>
     /\ \A r \in Runs : run[r].pc = "rejected" => run'[r] = RejectedRun]_vars

\* An invocation has been rejected while the run before it is in its lookup.
C2_Witness ==
  \E r, q \in Runs : run[r] = RejectedRun /\ run[q].pc = "lookup"

\* ------------------------------------------------------------------------
\* Login state
\* ------------------------------------------------------------------------
\* C10: under any interleaving of login requests, SMS-code requests, ticks
\* of the login monitoring and getAuthenticatedPage calls the login state
\* only moves forward (idle, logging_in, waiting_sms_code, logged_in), to
\* "failed" or back to "idle"; in particular "logged_in" is entered only
\* from "waiting_sms_code".
C10_LoggedInOnlyFromWaiting ==
  [][(systemStatus'.loginStatus = "logged_in" /\ systemStatus.loginStatus # "logged_in") =>
        systemStatus.loginStatus = "waiting_sms_code"]_vars

\* A login request is in startPhoneLoginProcess, past the controller's test.
LoginProceeds(i) == request[i].kind = "login"

\* C11: a login request made while the login state is "logging_in" or
\* "waiting_sms_code" is refused and leaves the session and the login state
\* as they are, whatever the interleaving: no startPhoneLoginProcess begins
\* (cleaning up the session and publishing "logging_in") while the login
\* state is one of the two, so of two overlapping requests at most one
\* proceeds.
C11_NoLoginBeginsWhileInProgress ==
  [][\A i \in Requests :
       (LoginProceeds(i) /\ request[i].pc = "checked" /\ request'[i].pc # "checked") =>
          systemStatus.loginStatus \notin {"logging_in", "waiting_sms_code"}]_vars

\* C12: a submitted SMS code is taken up only while the login state is
\* "waiting_sms_code": in every other state submitSmsCode types no code and
\* starts no login monitoring.
C12_CodeTypedOnlyWhileWaiting ==
  [][\A i \in Requests :
       (request[i].kind = "submit" /\ request[i].pc = "checked" /\ request'[i].pc = "typing") =>
          systemStatus.loginStatus = "waiting_sms_code"]_vars

\* ------------------------------------------------------------------------
\* Login monitoring
\* ------------------------------------------------------------------------
\* The timer of monitoring i fires at the timeout in this step.
TimeoutFires(i) ==
  \E t \in Ticks : poll[i].body[t].pc # "timeoutWrite" /\ poll'[i].body[t].pc = "timeoutWrite"

\* The tick of monitoring i that fired at the timeout ends in this step.
TimeoutTickEnds(i) ==
  \E t \in Ticks : poll[i].body[t].pc = "timeoutWrite" /\ poll'[i].body[t].pc # "timeoutWrite"

Stopped(i) == request[i] = Done /\ ~poll[i].timer

\* C14: every login monitoring started by an accepted SMS code stops, the
\* timer firing again and again until cleared: its timer is cleared in the
\* end, in a step that publishes "logged_in" or "failed" or resets the
\* session, and once it is cleared the timer is never set again and no
\* further probe of that monitoring is begun, whatever the probes return.
C14_MonitoringStops ==
  /\ \A i \in Requests : poll[i].timer ~> ~poll[i].timer
  /\ [][\A i \in Requests :
          /\ (poll[i].timer /\ ~poll'[i].timer) =>
                \/ systemStatus'.loginStatus \in {"logged_in", "failed"}
                \/ currentSession' = NoSession
          /\ Stopped(i) =>
                /\ ~poll'[i].timer
                /\ \A t \in Ticks :
                     poll'[i].body[t].pc = "probing" => poll[i].body[t].pc = "probing"]_vars

\* The only monitoring there is has been stopped by its timeout.
C14_Witness ==
  \E i \in Requests :
     /\ Stopped(i)
     /\ systemStatus.loginStatus = "failed" /\ systemStatus.error = "Login timeout"
     /\ \A j \in Requests : j # i => poll[j] = NoPoll

\* C15: every "logged_in" that a login monitoring publishes leads to a call
\* of the registered callback, which invokes startBatchUpdate: however
\* many logins have been seen, as many invocations of startBatchUpdate
\* are made in the end (an invocation made while a run is in progress is
\* entered and rejected by the guard).
C15_EveryLoginInvokesBatch ==
  \A k \in 1..MaxRuns : (LoginsSoFar >= k) ~> (Entered >= k)

\* startBatchUpdate has been invoked by the callback of a login, and no
\* callback is pending.
C15_Witness ==
  /\ Entered >= 1 /\ callbacks = 0
  /\ systemStatus.loginStatus = "logged_in"

\* ------------------------------------------------------------------------
\* The pooled authenticated page
\* ------------------------------------------------------------------------
\* getAuthenticatedPage is called by request i in this step.
GetArrives(i) ==
  /\ request[i].kind = "none"
  /\ request'[i].kind = "get" \/ (request'[i] = Done /\ returned'.kind = "get")

Creating == {i \in Requests : request[i].kind = "get" /\ request[i].pc = "creating"}

\* C17: the callers of getAuthenticatedPage are serialized where the pool
\* is tested and a page created, so that two overlapping calls never both
\* create a page.
C17_OneCreatorAtATime == Cardinality(Creating) <= 1

\* Request i's re-probe of the pooled page validates and the call returns.
ReprobeValid(i) ==
  /\ request[i].kind = "get" /\ request[i].pc = "reprobe"
  /\ request'[i] = Done

\* Request i's re-probe of the pooled page fails.
ReprobeInvalid(i) ==
  /\ request[i].kind = "get" /\ request[i].pc = "reprobe"
  /\ request'[i].pc = "creating"

\* Request i's new page is validated.
CreatedValid(i) ==
  /\ request[i].kind = "get" /\ request[i].pc = "creating"
  /\ request'[i] = Done
  /\ returned'.result = "page"

SessionPages ==
  ({currentSession.page}
     \cup {request[i].page : i \in {j \in Requests : request[j].kind \in {"login", "submit"}}}
     \cup {poll[i].body[t].page : i \in Requests, t \in Ticks}) \ {NoPage}

\* C19: at most one login session is alive: the only page of a login
\* session that is open is the page of the current session, so the page of
\* an earlier session is closed by the time a new session has its page.
C19_OnlyCurrentSessionPageOpen ==
  (SessionPages \cap openPages) \subseteq {currentSession.page}

\* ------------------------------------------------------------------------
\* A lookup without data
\* ------------------------------------------------------------------------
\* The lookup of run r's application has returned without data or thrown.
LookupFailed(r) == run[r].pc = "lookup" /\ run'[r].pc # "lookup" /\ run'[r].pc # "chunk"

\* C20: when the lookup of an application gives no data or throws, processed
\* and failed both grow by the number of its notes and that progress is
\* published (in memory, and in Redis when the command succeeds) in the
\* same step; none of its notes is handed to the update-and-notify task
\* (item tasks start only after a lookup that gave data, or after the delay
\* between two chunks); and after the awaited status update and the delay
\* the run goes to the next application, or to its end after the last one.
C20_FailedLookupCountsAllAndGoesOn ==
  [][\A r \in Runs :
        /\ LookupFailed(r) =>
              LET n == run[r].apps[run[r].idx]
              IN  /\ run'[r] = [run[r] EXCEPT !.pc = "statusWrite", !.next = "entityDelay",
                                               !.processed = @ + n, !.failed = @ + n,
                                               !.lookupError = run'[r].lookupError]
                  /\ run'[r].inFlight = 0 /\ run'[r].writing = 0
                  /\ systemStatus'.progress =
                       Progress(run[r].totalNotes, run[r].processed + n, run[r].failed + n)
                  /\ redisFailures' = redisFailures => redisStore' = <<systemStatus'>>
                  /\ dataStore' = dataStore
        /\ (run[r].pc = "statusWrite" /\ run[r].next = "entityDelay" /\ run'[r] # run[r]) =>
              run'[r] = [run[r] EXCEPT !.pc = "entityDelay", !.next = ""]
        /\ (run[r].pc = "entityDelay" /\ run'[r] # run[r]) =>
              \/ /\ run[r].idx < Len(run[r].apps)
                 /\ run'[r] = [run[r] EXCEPT !.pc = "lookup", !.idx = @ + 1,
                                              !.lookupError = NoError]
              \/ /\ run[r].idx = Len(run[r].apps)
                 /\ run'[r] = [run[r] EXCEPT !.pc = "statusWrite", !.next = "deleteProgress"]
        /\ (run'[r].pc = "chunk" /\ run[r].pc # "chunk") =>
              /\ run[r].pc \in {"lookup", "chunkDelay"}
              /\ run'[r].processed = run[r].processed /\ run'[r].failed = run[r].failed]_vars

\* The lookup of the first application, which has MaxNotesPerApp notes, gave
\* no data: all of them are counted in processed and in failed, in memory
\* and in Redis, and the run is at the lookup of the second application.
C20_Witness ==
  \E r \in Runs :
     /\ run[r].pc = "lookup" /\ run[r].idx = 2
     /\ run[r].apps[1] = MaxNotesPerApp
     /\ run[r].processed = MaxNotesPerApp /\ run[r].failed = MaxNotesPerApp
     /\ systemStatus.progress = Progress(run[r].totalNotes, MaxNotesPerApp, MaxNotesPerApp)
     /\ redisStore = <<systemStatus>>

\* ------------------------------------------------------------------------
\* The ends of a run
\* ------------------------------------------------------------------------
\* The DataStore holds applications with notes, yet the enumeration gave
\* run r none: the queries of fetchAllApplicationsWithNotes failed.
EnumerationFailed(r) ==
  /\ run[r].pc = "fetch" /\ dataStore # <<>>
  /\ run'[r].pc = "statusWrite" /\ run'[r].next # "lookup"

\* C21: a run whose enumeration of the DataStore fails is aborted: it
\* publishes "failed" with an error message and never "completed".
C21_StoreFailureAborts ==
  [][\A r \in Runs : EnumerationFailed(r) =>
        /\ systemStatus'.updateStatus = "failed"
        /\ systemStatus'.error # ""]_vars

\* Run r returns in this step, every lookup and every note update of it
\* having succeeded: it had notes to update and counted no failure.
EndsAllSucceeded(r) ==
  /\ run[r].pc \in {"deleteProgress", "statusWrite"} /\ run'[r] = EndedRun
  /\ run[r].apps # <<>> /\ run[r].failed = 0

Aborts(r) == run[r].pc = "deleteProgress" /\ run'[r].pc = "statusWrite"

\* C23: when an error propagates out of the body of a run, "failed" and the
\* error message are published and the progress record stays in Redis: it
\* is left as it was or overwritten with the failed status, and the run
\* then returns without changing the status or the record again.
C23_AbortLeavesFailedRecord ==
  [][\A r \in Runs :
        /\ Aborts(r) =>
              /\ systemStatus'.updateStatus = "failed" /\ systemStatus'.error # ""
              /\ redisStore' \in {redisStore, <<systemStatus'>>}
              /\ redisStore # <<>> => redisStore' # <<>>
              /\ run'[r].next = "ended"
        /\ (run[r].pc = "statusWrite" /\ run[r].next = "ended" /\ run'[r] # run[r]) =>
              /\ run'[r] = EndedRun
              /\ UNCHANGED <<systemStatus, redisStore>>]_vars

\* A run has returned after its delete of the progress record failed:
\* "failed" and the message are in memory and in the record left in Redis.
C23_Witness ==
  /\ \E r \in Runs : run[r] = EndedRun
  /\ systemStatus.updateStatus = "failed" /\ systemStatus.error = "redis delete failed"
  /\ redisStore = <<systemStatus>>
  /\ ~isUpdating

\* The enumeration gives run r no application with notes.
FindsNothing(r) == run[r].pc = "fetch" /\ run'[r].pc = "statusWrite" /\ run'[r].next # "lookup"

\* Run r has no application to update.
EmptyRun(r) == Active(r) /\ run[r].pc # "fetch" /\ run[r].next # "fetch" /\ run[r].apps = <<>>

C25_OneApplicationAtATime ==
  [][\A r \in Runs :
        /\ (run'[r].pc = "entityDelay" /\ run[r].pc # "entityDelay") =>
              \/ run[r].pc = "statusWrite" /\ run[r].inFlight = 0 /\ run[r].writing = 0
              \/ /\ run[r].pc = "chunk" /\ run[r].inFlight = 0 /\ run[r].writing = 1
                 /\ run[r].chunk + maxConcurrentRequests >= run[r].apps[run[r].idx]
        /\ (run'[r].pc = "lookup" /\ run[r].pc # "lookup") =>
              /\ run[r].inFlight = 0 /\ run[r].writing = 0
              /\ \/ run[r].pc = "entityDelay" /\ run'[r].idx = run[r].idx + 1
                 \/ run[r].pc = "statusWrite" /\ run'[r].idx = 1
        /\ run'[r].pc = "lookup" =>
              /\ run'[r].inFlight = 0 /\ run'[r].writing = 0
              /\ \A q \in Runs \ {r} : run'[q].pc \notin {"lookup", "chunk", "chunkDelay"}]_vars

\* The first application has MaxNotesPerApp notes: its lookup gave data,
\* all its notes have settled, and the run is in the lookup of the second.
C25_Witness ==
  \E r \in Runs :
     /\ run[r].pc = "lookup" /\ run[r].idx = 2
     /\ run[r].apps[1] = MaxNotesPerApp
     /\ run[r].processed + run[r].failed = MaxNotesPerApp
     /\ run[r].processed > 0 /\ run[r].failed > 0

\* The item tasks of run r that have not finished: processor(item) not yet
\* settled, or onComplete awaiting its status update.
Unfinished(rec) == rec.inFlight + rec.writing

\* C26: at most maxConcurrentRequests (3) item tasks of a run are unfinished
\* at any time; item tasks are started a chunk at a time, a chunk being the
\* next 3 notes of the list (or what is left of it), the first at offset 0
\* and each further one 3 notes on; and a chunk is started only when no
\* task of the chunk before is unfinished.
C26_ChunksOfWidthThree ==
  [][\A r \in Runs :
        /\ Unfinished(run'[r]) <= maxConcurrentRequests
        /\ run'[r].inFlight > run[r].inFlight =>
              LET n == run[r].apps[run[r].idx]
              IN  /\ Unfinished(run[r]) = 0
                  /\ \/ run[r].pc = "lookup" /\ run'[r].chunk = 0
                     \/ /\ run[r].pc = "chunkDelay"
                        /\ run'[r].chunk = run[r].chunk + maxConcurrentRequests
                  /\ run'[r].chunk < n
                  /\ run'[r].inFlight =
                       IF n - run'[r].chunk < maxConcurrentRequests
                         THEN n - run'[r].chunk ELSE maxConcurrentRequests
                  /\ run'[r].idx = run[r].idx
        /\ (run[r].pc = "chunk" /\ run'[r].pc = "entityDelay") =>
              run[r].chunk + maxConcurrentRequests >= run[r].apps[run[r].idx]]_vars

\* The first chunk of an application with MaxNotesPerApp notes has finished
\* (3 notes counted) and the second chunk, the notes left, is in flight.
C26_Witness ==
  \E r \in Runs :
     /\ run[r].pc = "chunk" /\ run[r].idx = 1 /\ run[r].chunk = maxConcurrentRequests
     /\ run[r].apps[1] = MaxNotesPerApp
     /\ run[r].inFlight = MaxNotesPerApp - maxConcurrentRequests /\ run[r].writing = 0
     /\ run[r].processed + run[r].failed = maxConcurrentRequests

\* ------------------------------------------------------------------------
\* Counting the notes
\* ------------------------------------------------------------------------
\* An item task of run r settles in this step.
ItemSettles(r) == run[r].pc = "chunk" /\ run'[r].inFlight = run[r].inFlight - 1

\* C27: after a lookup that gave data every note is counted once: the step
\* in which its task settles adds 1 to processed or 1 to failed, never to
\* both, and publishes the counters; the counters change in no other step
\* while the notes of the application are processed; so with the first
\* application the notes counted are those of the chunks before plus those
\* settled of the chunk in flight. A task that fails leaves the other tasks
\* of the chunk in flight and the run "updating", and the run goes on to the
\* next chunk or application as after a success.
C27_EachNoteCountedOnce ==
  [][\A r \in Runs :
        /\ ItemSettles(r) =>
              /\ \/ run'[r].processed = run[r].processed + 1 /\ run'[r].failed = run[r].failed
                 \/ run'[r].processed = run[r].processed /\ run'[r].failed = run[r].failed + 1
              /\ systemStatus'.progress =
                   Progress(run[r].totalNotes, run'[r].processed, run'[r].failed)
              /\ systemStatus'.updateStatus = "updating"
              /\ run'[r].pc = "chunk" /\ run'[r].writing = run[r].writing + 1
        /\ (run[r].pc \in {"chunk", "chunkDelay"} /\ ~ItemSettles(r)) =>
              run'[r].processed = run[r].processed /\ run'[r].failed = run[r].failed
        /\ (run'[r].pc = "chunk" /\ run'[r].idx = 1) =>
              run'[r].processed + run'[r].failed =
                 run'[r].chunk + ChunkSize(run'[r].apps[1], run'[r].chunk) - run'[r].inFlight
        /\ (run[r].pc = "chunk" /\ run'[r].pc # "chunk") =>
              /\ Unfinished(run[r]) = 1 /\ Unfinished(run'[r]) = 0
              /\ run'[r].pc = IF run[r].chunk + maxConcurrentRequests < run[r].apps[run[r].idx]
                                THEN "chunkDelay" ELSE "entityDelay"]_vars

\* A run over two applications of MaxNotesPerApp notes has returned with
\* "completed": one note failed, all the others were processed.
C27_Witness ==
  /\ dataStore = <<MaxNotesPerApp, MaxNotesPerApp>>
  /\ \E r \in Runs : run[r] = EndedRun
  /\ systemStatus.updateStatus = "completed"
  /\ systemStatus.progress = Progress(2 * MaxNotesPerApp, 2 * MaxNotesPerApp - 1, 1)

\* ------------------------------------------------------------------------
\* Notification failures
\* ------------------------------------------------------------------------
\* C28: a notification that is not delivered (sendNoteNotification reports
\* failure or throws) does not fail the note: the task resolves, so the note
\* is counted as processed; the row, written once with the crawled metrics
\* before the send, is neither restored nor written again; and nothing
\* more is sent for the note.
C28_SendFailureSwallowed ==
  [][itemPc = "send" /\ itemPc' # "send" =>
        /\ itemPc' = "done" /\ itemResult' = "resolved"
        /\ storedRow = [f \in CountFields |-> {newData[f]}] /\ storedRow' = storedRow
        /\ updatesDone = 1 /\ updatesDone' = 1
        /\ Len(notifications') = 1]_vars

\* The send for a note has failed or thrown: the task has resolved and the
\* row holds the crawled metrics, which differ from the ones it had.
C28_Witness ==
  /\ itemPc = "done" /\ itemResult = "resolved"
  /\ Len(notifications) = 1 /\ notifications[1].outcome \in {"failed", "threw"}
  /\ storedRow = [f \in CountFields |-> {newData[f]}]
  /\ storedRow # note.counts
  /\ updatesDone = 1

\* ------------------------------------------------------------------------
\* Retrying the lookup
\* ------------------------------------------------------------------------
\* C29: the notes of an application are counted as failed after a lookup
\* that failed with a transient error (one RetryUtil's default condition
\* retries) only if that lookup had been attempted again.
C29_TransientLookupRetried ==
  [][\A r \in Runs :
        (LookupFailed(r) /\ defaultRetryCondition(run'[r].lookupError)) =>
           run[r].lookups > 1]_vars

\* ------------------------------------------------------------------------
\* The minimum length of a search term
\* ------------------------------------------------------------------------
\* The search tries no term shorter than m, and a search that found nothing
\* has tried every length of the trimmed query down to m.
TriedDownTo(m) ==
  /\ \A i \in 1..Len(searchAttempts) : Len(searchAttempts[i]) >= m
  /\ (searchPc = "done" /\ searchResult.status = "failure") =>
        Len(searchAttempts) = Max(0, Len(appName) - m + 1)

\* C30 (as stated): the minimum length is 1 for a query with a character
\* outside ASCII, whatever its script, and 2 for any other query.
C30_MinOneIfNonAscii ==
  TriedDownTo(IF \E i \in 1..Len(appName) : CodeUnit(appName[i]) > 127 THEN 1 ELSE 2)

\* C30 (amended): the minimum length is 1 for a query with a CJK ideograph
\* (U+4E00 to U+9FFF) and 2 for any other query, ASCII or not.
C30_MinOneIfIdeograph ==
  TriedDownTo(IF \E i \in 1..Len(appName) : appName[i] = "U4E2D" THEN 1 ELSE 2)

\* The search for a query of a hiragana letter and an ASCII letter has found
\* nothing after one attempt, the whole query: its minimum length was 2.
C30_Witness ==
  /\ appName = <<"U3042", "a">>
  /\ searchPc = "done" /\ searchResult.status = "failure"
  /\ searchAttempts = <<appName>>

\* ------------------------------------------------------------------------
\* A search without a match
\* ------------------------------------------------------------------------
\* The search has ended without a match.
NotFound == searchPc = "done" /\ searchResult.status = "failure"

\* C31: every search ends; one that ends without a match has made exactly
\* n - minLen + 1 attempts (none when n < minLen), n being the length of the
\* trimmed query, none of which yielded data, and its result lists the terms
\* attempted, the prefixes of length n, n-1, ..., minLen in that order.
C31_NotFoundAfterAllPrefixes ==
  /\ [](NotFound =>
          LET n == Len(appName)
              m == minSearchLength(appName)
              k == IF n < m THEN 0 ELSE n - m + 1
          IN  /\ Len(searchAttempts) = k
              /\ searchResult.attempts = [i \in 1..k |-> SubSeq(appName, 1, n - i + 1)]
              /\ searchAttempts = searchResult.attempts
              /\ attemptYield = [i \in 1..k |-> FALSE])
  /\ <>(searchPc = "done")

\* The search for a query of an ideograph and two letters has ended without
\* a match after three attempts, listed from the longest to the shortest.
C31_Witness ==
  /\ NotFound
  /\ appName = <<"U4E2D", "a", "a">>
  /\ searchResult.attempts = << <<"U4E2D", "a", "a">>, <<"U4E2D", "a">>, <<"U4E2D">> >>

\* ------------------------------------------------------------------------
\* The release of the guard
\* ------------------------------------------------------------------------
\* C32: however a run ends (after the last application, with nothing to
\* update, or through the catch), the guard is clear in the step in which
\* it returns; so the guard is set only while a run is active, and an
\* invocation is rejected only while another run is active.
C32_GuardReleasedAtEveryEnd ==
  /\ [](isUpdating => \E r \in Runs : Active(r))
  /\ [][\A r \in Runs :
          /\ (Active(r) /\ run'[r] = EndedRun) => ~isUpdating'
          /\ (run[r].pc = "idle" /\ run'[r] = RejectedRun) =>
                \E q \in Runs \ {r} : Active(q)]_vars

\* The first run has ended through the catch (its delete of the progress
\* record failed) and the next invocation has been let in: it is fetching.
C32_Witness ==
  /\ run[1] = EndedRun
  /\ run[2].pc = "fetch"
  /\ isUpdating
  /\ systemStatus.error = "redis delete failed"

\* The ticks that hold a positive probe of page p and have yet to schedule
\* the callback.
SawLoggedIn(p) ==
  {<<i, t>> \in Requests \X Ticks :
     poll[i].body[t].pc = "loggedInWrite" /\ poll[i].body[t].probed = p}

\* C33: for one login attempt the completion callback is invoked at most
\* once: no two ticks, of one monitoring or of two, are at the same time
\* about to schedule the callback for the same session page.
C33_OneCallbackPerLogin ==
  \A p \in Requests : Cardinality(SawLoggedIn(p)) <= 1

\* C34: a login poll acts only on the session it was started for: the page
\* a tick of the monitoring started by request i probes was created by a
\* request made before i, never by a startLogin that came after it.
C34_PollKeepsToItsSession ==
  \A i \in Requests : \A t \in Ticks :
    poll[i].body[t].page # NoPage => poll[i].body[t].page < PageOf(i)

\* Request i is a submitChallenge turned down by this step for want of a
\* challenge: by the controller on the login state, or by submitSmsCode on
\* the session.
SubmitRejected(i) ==
  \/ /\ request[i].kind = "none" /\ request'[i] = Done
     /\ returned'.kind = "submit" /\ returned'.result = "rejected"
  \/ /\ request[i].kind = "submit" /\ request[i].pc = "checked"
     /\ request'[i] # request[i]
     /\ NoActiveChallenge(currentSession)

\* C35: a submitChallenge that is rejected because no challenge is awaiting
\* leaves the login state, the recorded error and the pooled authenticated
\* page unchanged.
C35_RejectedSubmitChangesNothing ==
  [][\A i \in Requests :
       SubmitRejected(i) =>
         /\ systemStatus'.loginStatus = systemStatus.loginStatus
         /\ systemStatus'.error = systemStatus.error
         /\ authenticatedPage' = authenticatedPage]_vars

\* ------------------------------------------------------------------------
\* Progress counters
\* ------------------------------------------------------------------------
\* Progress q counts no less than progress p.
NotBehind(p, q) == p.processed <= q.processed /\ p.failed <= q.failed

\* C36: while the notes of a chunk are processed the progress record held
\* in the store never regresses: a later record never has a smaller
\* processed or failed count than the record before it, although the items
\* of the chunk finish concurrently and each sends its own write.
C36_StoredProgressNeverRegresses ==
  [][\A r \in Runs :
       (run[r].pc = "chunk" /\ redisStore # <<>> /\ redisStore' # <<>>) =>
          NotBehind(redisStore[1].progress, redisStore'[1].progress)]_vars

\* The counters of progress p are within its total, one by one.
EachWithinTotal(p) == p.processed <= p.total /\ p.failed <= p.total

\* C37: in every state of a run processed <= total and failed <= total, in
\* the run's counters, in the status in memory and in the record of the
\* store; and from the write of the total to the end of the run neither
\* counter of the run, nor of the status in memory, decreases.
C37_CountersWithinTotalAndGrowing ==
  /\ [](\A r \in Runs :
          Active(r) =>
            /\ EachWithinTotal(systemStatus.progress)
            /\ redisStore # <<>> => EachWithinTotal(redisStore[1].progress)
            /\ run[r].totalNotes > 0 =>
                 run[r].processed <= run[r].totalNotes /\ run[r].failed <= run[r].totalNotes)
  /\ [][\A r \in Runs :
          (run[r].totalNotes > 0 /\ Active(r) /\ Active(r)') =>
             /\ run[r].processed <= run'[r].processed
             /\ run[r].failed <= run'[r].failed
             /\ NotBehind(systemStatus.progress, systemStatus'.progress)]_vars

\* A run over an application with one note and one with MaxNotesPerApp
\* notes has processed the first and found nothing for the second: both
\* counters have grown, processed up to the total, in memory and in the
\* store.
C37_Witness ==
  \E r \in Runs :
    /\ Active(r)
    /\ run[r].apps = <<1, MaxNotesPerApp>>
    /\ run[r].processed = run[r].totalNotes /\ run[r].failed = MaxNotesPerApp
    /\ systemStatus.progress = Progress(run[r].totalNotes, run[r].processed, run[r].failed)
    /\ redisStore = <<systemStatus>>

\* ------------------------------------------------------------------------
\* Notification after the update
\* ------------------------------------------------------------------------
\* The crawled metrics are those the note had.
SameMetrics == \A f \in CountFields : newData[f] = OrZero(note.counts[f])

\* C38: a notification is sent for a note only after its update was
\* persisted (the row holds the crawled metrics, written once) and only
\* when the metrics have changed; a note whose update failed, or whose
\* metrics are unchanged, gets no notification; and no note gets more than
\* one.
C38_NotifiedOnlyAfterPersistedChange ==
  /\ Len(notifications) <= 1
  /\ notifications # <<>> =>
       /\ updatesDone = 1
       /\ storedRow = [f \in CountFields |-> {newData[f]}]
       /\ hasChanges = <<TRUE>>
       /\ ~SameMetrics
       /\ itemResult # "rejected"
  /\ (itemResult = "rejected" \/ SameMetrics) => notifications = <<>>

\* A note whose update succeeded at a second attempt and changed the row
\* has had its one notification delivered.
C38_Witness ==
  /\ itemPc = "done" /\ itemResult = "resolved"
  /\ updateAttempt = 2 /\ updatesDone = 1
  /\ ~SameMetrics
  /\ Len(notifications) = 1 /\ notifications[1].outcome = "sent"

\* ------------------------------------------------------------------------
\* Failures of the progress store
\* ------------------------------------------------------------------------
\* Run r returns in this step with every application it fetched gone
\* through.
EndsAllProcessed(r) ==
  /\ run[r] # EndedRun /\ run'[r] = EndedRun
  /\ run[r].apps # <<>> /\ run[r].idx = Len(run[r].apps)

\* C39: a failure of the progress store never changes the outcome of a run:
\* a run that has gone through every application ends "completed", whether
\* or not a progress write or the final delete failed.
C39_StoreFailureKeepsOutcome ==
  [][\A r \in Runs : EndsAllProcessed(r) => systemStatus'.updateStatus = "completed"]_vars
====
